---- MODULE Spec2Model ----
(***************************************************************************)
(* Model of the certification-program dashboard's persistence, audit,      *)
(* access-control, authentication and gateway code.                        *)
(*                                                                         *)
(*   - the local-storage repositories (operations module, LocalDB)         *)
(*   - the audit log and the dataset-version store                         *)
(*   - the API gateway handler and the auth (login) handlers               *)
(***************************************************************************)
EXTENDS Integers, Sequences, FiniteSets, TLC

VARIABLES
    localStorage,   \* the browser's key-value store: key -> stored item
    auditSeq,       \* source of fresh audit ids / timestamps (Date.now(), Math.random())
    auditHistory,   \* history: every audit entry that was stored, newest first
    lastOp,         \* the last repository call: name, arguments, outcome
    lastSaved,      \* history: per collection, the argument of the last bulk save the store took
    opCount,        \* number of repository calls made so far
    faults,         \* number of writes the backing store has rejected so far
    impl,           \* the persistence module the application is built on
    writers,        \* the browsing contexts (tabs) running a create on the shared store
    jwtSecret,      \* process.env.JWT_SECRET of the deployed functions
    now,            \* the server clock, in hours
    db,             \* the SQL database: table name -> rows, oldest first
    lastEvent,      \* the last HTTP request a function handled
    lastResponse,   \* the response the function returned for it
    lastRun,        \* history: which function ran, when, what it did on the way
    created         \* history: the rows successful gateway POSTs returned, with their type

localVars ==
    <<localStorage, auditSeq, auditHistory, lastOp, lastSaved, opCount, faults, impl, writers>>

serverVars == <<jwtSecret, now, db, lastEvent, lastResponse, lastRun, created>>

vars == <<localVars, serverVars>>

----------------------------------------------------------------------------
(* Bounds of the model *)

MaxVersionOps == 6
MaxFaults == 1
MaxRoster == 2
MaxAuditOps == 2
MaxInvoiceOps == 3
MaxClock == 2
MaxRows == 2

(* Program constants *)

AuditCap == 1000
VersionCap == 5
LocalVersionCap == 5
OneHour == 1
OneDay == 24

----------------------------------------------------------------------------
(* COLLECTION_KEYS (schema) / KEYS (LocalDB): the same key strings *)

COLLECTION_KEYS ==
    [ VERSIONS   |-> "hcp_versions",
      INVOICES   |-> "hcp_invoices",
      AGREEMENTS |-> "hcp_agreements",
      EVENTS     |-> "hcp_events",
      CAMPAIGNS  |-> "hcp_campaigns",
      ADMINS     |-> "hcp_admins",
      REGISTRY   |-> "hcp_registry",
      AUDIT_LOGS |-> "hcp_audit_logs" ]

KEYS ==
    [ VERSIONS   |-> "hcp_versions",
      INVOICES   |-> "hcp_invoices",
      AGREEMENTS |-> "hcp_agreements",
      EVENTS     |-> "hcp_events",
      CAMPAIGNS  |-> "hcp_campaigns",
      ADMINS     |-> "hcp_admins",
      REGISTRY   |-> "hcp_registry" ]

StorageKeys == { COLLECTION_KEYS[f] : f \in DOMAIN COLLECTION_KEYS }

----------------------------------------------------------------------------
(* JSON.  A JS number is Num(n), NaN or Infinity; JSON has no non-finite   *)
(* number and writes null for it.                                          *)
(* A stored item is absent, a JSON text (held as the document it denotes)  *)
(* or a text that does not parse.                                          *)

Num(n) == [num |-> n]
NaN == [nan |-> TRUE]
Infinity == [infinity |-> TRUE]
JsonNull == [null |-> TRUE]

NumberFields == {"totalAmount"}

NoItem == [kind |-> "none"]
CorruptItem == [kind |-> "corrupt"]
TextItem(doc) == [kind |-> "text", doc |-> doc]

\* JSON.stringify of one entity: a non-finite number is written as null
StringifyEntity(e) ==
    [f \in DOMAIN e |->
        IF f \in NumberFields /\ e[f] \in {NaN, Infinity} THEN JsonNull ELSE e[f]]

\* JSON.stringify of an array of entities
JSONstringify(data) ==
    TextItem([i \in 1..Len(data) |-> StringifyEntity(data[i])])

\* JSON.parse of a JSON text: the JS value the document denotes
JSONparse(item) == item.doc

getItem(ls, key) == ls[key]

setItem(ls, key, item) == [ls EXCEPT ![key] = item]

----------------------------------------------------------------------------
(* Generic storage operations (operations module).  `accepted` is the      *)
(* backing store's answer to the write: FALSE is a quota rejection.        *)

\* mutant of saveToStorage: the store is cleared before the item is set
saveToStorage_clearsStore(ls, key, data, accepted) ==
    IF accepted
    THEN [ls |-> [k \in DOMAIN ls |-> IF k = key THEN JSONstringify(data) ELSE NoItem],
          threw |-> FALSE]
    ELSE [ls |-> ls, threw |-> TRUE]

saveToStorage(ls, key, data, accepted) ==
    IF accepted
    THEN [ls |-> setItem(ls, key, JSONstringify(data)), threw |-> FALSE]
    ELSE [ls |-> ls, threw |-> TRUE]

\* mutant of loadFromStorage: a stored empty array counts as missing
loadFromStorage_emptyIsMissing(ls, key, fallback) ==
    LET item == getItem(ls, key)
    IN  IF item = NoItem THEN fallback
        ELSE IF item = CorruptItem THEN fallback
        ELSE IF JSONparse(item) = <<>> THEN fallback
        ELSE JSONparse(item)

loadFromStorage(ls, key, fallback) ==
    LET item == getItem(ls, key)
    IN  IF item = NoItem THEN fallback
        ELSE IF item = CorruptItem THEN fallback
        ELSE JSONparse(item)

(* Generic saver / loader of LocalDB: the saver swallows the rejection *)

saveItem(ls, key, data, accepted) ==
    IF accepted
    THEN [ls |-> setItem(ls, key, JSONstringify(data)), threw |-> FALSE]
    ELSE [ls |-> ls, threw |-> FALSE]

\* mutant of loadItem: a corrupt item loads as the empty array
loadItem_corruptIsEmpty(ls, key, fallback) ==
    LET item == getItem(ls, key)
    IN  IF item = NoItem THEN fallback
        ELSE IF item = CorruptItem THEN <<>>
        ELSE JSONparse(item)

loadItem(ls, key, fallback) ==
    LET item == getItem(ls, key)
    IN  IF item = NoItem THEN fallback
        ELSE IF item = CorruptItem THEN fallback
        ELSE JSONparse(item)

----------------------------------------------------------------------------
(* Audit log *)

\* mutant of Slice: keeps the last n elements, as slice(-n) would
Slice_last(s, n) == SubSeq(s, IF Len(s) < n THEN 1 ELSE Len(s) - n + 1, Len(s))

\* Array.prototype.slice(0, n)
Slice(s, n) == SubSeq(s, 1, IF Len(s) < n THEN Len(s) ELSE n)

\* the entry with its id and timestamp; seq stands for Date.now() and the random suffix
Stamped(log, seq) ==
    [ id          |-> seq,
      timestamp   |-> seq,
      userId      |-> log.userId,
      action      |-> log.action,
      entityType  |-> log.entityType,
      entityId    |-> log.entityId,
      partnerCode |-> log.partnerCode ]

\* createAuditLog: load, prepend the stamped entry, keep the first 1000, save
createAuditLog(ls, log, seq, accepted) ==
    LET logs == loadFromStorage(ls, COLLECTION_KEYS.AUDIT_LOGS, <<>>)
        newLog == Stamped(log, seq)
        updatedLogs == Slice(<<newLog>> \o logs, AuditCap)
    IN  saveToStorage(ls, COLLECTION_KEYS.AUDIT_LOGS, updatedLogs, accepted)

\* the stored audit log, as getAuditLogs() without filters returns it
StoredAuditLogs == loadFromStorage(localStorage, COLLECTION_KEYS.AUDIT_LOGS, <<>>)

NoPartner == "(none)"

\* A repository write followed by its audit entry: the state after both,
\* given the result of the collection write
Audited(r1, log, a2) ==
    IF r1.threw THEN r1 ELSE createAuditLog(r1.ls, log, auditSeq, a2)

\* number of rejected writes in a call that writes the collection, then the log
Rejections(a1, a2) == IF ~a1 THEN 1 ELSE IF ~a2 THEN 1 ELSE 0

\* bookkeeping common to the audited repository writes
AfterAudited(r1, r2, log, a1, a2) ==
    /\ localStorage' = r2.ls
    /\ auditSeq' = IF r1.threw THEN auditSeq ELSE auditSeq + 1
    /\ auditHistory' = IF r1.threw \/ r2.threw THEN auditHistory
                       ELSE <<Stamped(log, auditSeq)>> \o auditHistory
    /\ faults' = faults + Rejections(a1, a2)
    /\ opCount' = opCount + 1

----------------------------------------------------------------------------
(* Dataset versions: operations module *)

DatasetVersionsGetAll(ls) == loadFromStorage(ls, COLLECTION_KEYS.VERSIONS, <<>>)

\* mutant of Pop: drops the first (newest) element, as shift() would
Pop_shift(s) == SubSeq(s, 2, Len(s))

\* Array.prototype.pop: drops the last element
Pop(s) == SubSeq(s, 1, Len(s) - 1)

DatasetVersionsSave(version, userId, a1, a2) ==
    LET current == DatasetVersionsGetAll(localStorage)
        added == <<version>> \o current
        updated == IF Len(added) > VersionCap THEN Pop(added) ELSE added
        r1 == saveToStorage(localStorage, COLLECTION_KEYS.VERSIONS, updated, a1)
        log == [ userId |-> userId, action |-> "UPLOAD", entityType |-> "developer",
                 entityId |-> version.id, partnerCode |-> NoPartner ]
        r2 == Audited(r1, log, a2)
    IN  /\ Rejections(a1, a2) <= MaxFaults - faults
        /\ AfterAudited(r1, r2, log, a1, a2)
        /\ lastOp' = [ op |-> "DatasetVersions.save", arg |-> version,
                       pre |-> current, wrote |-> ~r1.threw, threw |-> r2.threw ]
        /\ UNCHANGED lastSaved

DatasetVersionsDelete(id, userId, a1, a2) ==
    LET current == DatasetVersionsGetAll(localStorage)
        found == \E i \in 1..Len(current) : current[i].id = id
        updated == SelectSeq(current, LAMBDA v : v.id # id)
        r1 == saveToStorage(localStorage, COLLECTION_KEYS.VERSIONS, updated, a1)
        log == [ userId |-> userId, action |-> "DELETE", entityType |-> "developer",
                 entityId |-> id, partnerCode |-> NoPartner ]
        r2 == IF found THEN Audited(r1, log, a2) ELSE r1
        n == IF found THEN Rejections(a1, a2) ELSE Rejections(a1, TRUE)
    IN  /\ n <= MaxFaults - faults
        /\ localStorage' = r2.ls
        /\ auditSeq' = IF found /\ ~r1.threw THEN auditSeq + 1 ELSE auditSeq
        /\ auditHistory' = IF found /\ ~r2.threw
                           THEN <<Stamped(log, auditSeq)>> \o auditHistory
                           ELSE auditHistory
        /\ faults' = faults + n
        /\ opCount' = opCount + 1
        /\ lastOp' = [ op |-> "DatasetVersions.delete", arg |-> id,
                       pre |-> current, wrote |-> ~r1.threw, threw |-> r2.threw ]
        /\ UNCHANGED lastSaved

(* Dataset versions: LocalDB *)

getDatasetVersions(ls) ==
    LET data == getItem(ls, KEYS.VERSIONS)
    IN  IF data = NoItem THEN <<>>
        ELSE IF data = CorruptItem THEN <<>>
        ELSE JSONparse(data)

\* saveDatasetVersion: a rejected write is caught (logged, alert) and the call returns
saveDatasetVersion(version, accepted) ==
    LET current == getDatasetVersions(localStorage)
        added == <<version>> \o current
        updated == IF Len(added) > LocalVersionCap THEN Pop(added) ELSE added
    IN  /\ (~accepted) => faults < MaxFaults
        /\ localStorage' = IF accepted
                           THEN setItem(localStorage, KEYS.VERSIONS, JSONstringify(updated))
                           ELSE localStorage
        /\ faults' = IF accepted THEN faults ELSE faults + 1
        /\ opCount' = opCount + 1
        /\ lastOp' = [ op |-> "LocalDB.saveDatasetVersion", arg |-> version,
                       pre |-> current, wrote |-> accepted, threw |-> FALSE ]
        /\ UNCHANGED <<auditSeq, auditHistory, lastSaved>>

\* deleteDatasetVersion: no try/catch, a rejected write propagates
deleteDatasetVersion(id, accepted) ==
    LET current == getDatasetVersions(localStorage)
        updated == SelectSeq(current, LAMBDA v : v.id # id)
    IN  /\ (~accepted) => faults < MaxFaults
        /\ localStorage' = IF accepted
                           THEN setItem(localStorage, KEYS.VERSIONS, JSONstringify(updated))
                           ELSE localStorage
        /\ faults' = IF accepted THEN faults ELSE faults + 1
        /\ opCount' = opCount + 1
        /\ lastOp' = [ op |-> "LocalDB.deleteDatasetVersion", arg |-> id,
                       pre |-> current, wrote |-> accepted, threw |-> ~accepted ]
        /\ UNCHANGED <<auditSeq, auditHistory, lastSaved>>

----------------------------------------------------------------------------
(* Optional arguments.  An argument is left out (undefined) or supplied;   *)
(* `if (partnerCode)` tests truthiness: supplied and not the empty string. *)

Unsupplied == [supplied |-> FALSE]
Supplied(v) == [supplied |-> TRUE, value |-> v]
Truthy(arg) == arg.supplied /\ arg.value # ""

\* mutant of getAuditLogs: the date range is not applied
getAuditLogs_noDates(ls, filters) ==
    LET logs0 == loadFromStorage(ls, COLLECTION_KEYS.AUDIT_LOGS, <<>>)
    IN  IF ~filters.supplied THEN logs0
        ELSE
        LET f == filters.value
            logs1 == IF f.userId.supplied /\ f.userId.value # ""
                     THEN SelectSeq(logs0, LAMBDA l : l.userId = f.userId.value) ELSE logs0
            logs2 == IF f.entityType.supplied /\ f.entityType.value # ""
                     THEN SelectSeq(logs1, LAMBDA l : l.entityType = f.entityType.value) ELSE logs1
            logs3 == IF f.action.supplied /\ f.action.value # ""
                     THEN SelectSeq(logs2, LAMBDA l : l.action = f.action.value) ELSE logs2
        IN  IF f.partnerCode.supplied /\ f.partnerCode.value # ""
            THEN SelectSeq(logs3, LAMBDA l : l.partnerCode = f.partnerCode.value) ELSE logs3

\* getAuditLogs(filters): each `if (filters.x)` tests truthiness; a Date is
\* an object and always truthy; timestamps and dates are compared as instants
getAuditLogs(ls, filters) ==
    LET logs0 == loadFromStorage(ls, COLLECTION_KEYS.AUDIT_LOGS, <<>>)
    IN  IF ~filters.supplied THEN logs0
        ELSE
        LET f == filters.value
            logs1 == IF Truthy(f.userId)
                     THEN SelectSeq(logs0, LAMBDA l : l.userId = f.userId.value) ELSE logs0
            logs2 == IF Truthy(f.entityType)
                     THEN SelectSeq(logs1, LAMBDA l : l.entityType = f.entityType.value) ELSE logs1
            logs3 == IF Truthy(f.action)
                     THEN SelectSeq(logs2, LAMBDA l : l.action = f.action.value) ELSE logs2
            logs4 == IF Truthy(f.partnerCode)
                     THEN SelectSeq(logs3, LAMBDA l : l.partnerCode = f.partnerCode.value) ELSE logs3
            logs5 == IF f.startDate.supplied
                     THEN SelectSeq(logs4, LAMBDA l : l.timestamp >= f.startDate.value) ELSE logs4
        IN  IF f.endDate.supplied
            THEN SelectSeq(logs5, LAMBDA l : l.timestamp <= f.endDate.value) ELSE logs5

\* the value Array.prototype.find returns when nothing matches
Undefined == [undefined |-> TRUE]

\* mutant of FindIndexById: the last index with the id, as findLastIndex would
FindIndexById_last(s, id) ==
    IF \E i \in 1..Len(s) : s[i].id = id
    THEN CHOOSE i \in 1..Len(s) : s[i].id = id /\ \A j \in (i+1)..Len(s) : s[j].id # id
    ELSE 0

\* mutant of FindIndexById: an absent id yields the first index, not -1
FindIndexById_orFirst(s, id) ==
    IF \E i \in 1..Len(s) : s[i].id = id
    THEN CHOOSE i \in 1..Len(s) : s[i].id = id /\ \A j \in 1..(i-1) : s[j].id # id
    ELSE IF Len(s) > 0 THEN 1 ELSE 0

\* findIndex(x => x.id === id): the first index with the id, 0 for -1
FindIndexById(s, id) ==
    IF \E i \in 1..Len(s) : s[i].id = id
    THEN CHOOSE i \in 1..Len(s) : s[i].id = id /\ \A j \in 1..(i-1) : s[j].id # id
    ELSE 0

\* find(x => x.id === id): the first element with the id, or undefined
FindById(s, id) ==
    IF FindIndexById(s, id) = 0 THEN Undefined ELSE s[FindIndexById(s, id)]

Range(s) == { s[i] : i \in 1..Len(s) }

\* object spread { ...old, ...updates }
Merge(old, updates) ==
    [f \in DOMAIN old \cup DOMAIN updates |->
        IF f \in DOMAIN updates THEN updates[f] ELSE old[f]]

----------------------------------------------------------------------------
(* Invoices *)

\* mutant of InvoicesGetAll: the partner filter is ignored
InvoicesGetAll_noFilter(ls, partnerCode) ==
    loadFromStorage(ls, COLLECTION_KEYS.INVOICES, <<>>)

InvoicesGetAll(ls, partnerCode) ==
    LET invoices == loadFromStorage(ls, COLLECTION_KEYS.INVOICES, <<>>)
    IN  IF Truthy(partnerCode)
        THEN SelectSeq(invoices, LAMBDA i : i.partnerCode = partnerCode.value)
        ELSE invoices

InvoicesGetById(ls, id) ==
    FindById(InvoicesGetAll(ls, Unsupplied), id)

InvoicesCreate(invoice, userId, a1, a2) ==
    LET invoices == InvoicesGetAll(localStorage, Unsupplied)
        updated == <<invoice>> \o invoices
        r1 == saveToStorage(localStorage, COLLECTION_KEYS.INVOICES, updated, a1)
        log == [ userId |-> userId, action |-> "INVOICE_CREATED", entityType |-> "invoice",
                 entityId |-> invoice.id, partnerCode |-> invoice.partnerCode ]
        r2 == Audited(r1, log, a2)
    IN  /\ Rejections(a1, a2) <= MaxFaults - faults
        /\ AfterAudited(r1, r2, log, a1, a2)
        /\ lastOp' = [ op |-> "Invoices.create", arg |-> invoice,
                       pre |-> invoices, wrote |-> ~r1.threw, threw |-> r2.threw ]
        /\ UNCHANGED lastSaved

InvoicesUpdate(id, updates, userId, a1, a2) ==
    LET invoices == InvoicesGetAll(localStorage, Unsupplied)
        index == FindIndexById(invoices, id)
        found == index # 0
        merged == Merge(invoices[index], updates)
        updated == [invoices EXCEPT ![index] = merged]
        r1 == IF found
              THEN saveToStorage(localStorage, COLLECTION_KEYS.INVOICES, updated, a1)
              ELSE [ls |-> localStorage, threw |-> FALSE]
        log == [ userId |-> userId, action |-> "UPDATE", entityType |-> "invoice",
                 entityId |-> id, partnerCode |-> merged.partnerCode ]
        r2 == IF found THEN Audited(r1, log, a2) ELSE r1
        n == IF found THEN Rejections(a1, a2) ELSE 0
    IN  /\ n <= MaxFaults - faults
        /\ localStorage' = r2.ls
        /\ auditSeq' = IF found /\ ~r1.threw THEN auditSeq + 1 ELSE auditSeq
        /\ auditHistory' = IF found /\ ~r2.threw
                           THEN <<Stamped(log, auditSeq)>> \o auditHistory
                           ELSE auditHistory
        /\ faults' = faults + n
        /\ opCount' = opCount + 1
        /\ lastOp' = [ op |-> "Invoices.update", arg |-> id, updates |-> updates,
                       pre |-> invoices, wrote |-> found /\ ~r1.threw, threw |-> r2.threw ]
        /\ UNCHANGED lastSaved

----------------------------------------------------------------------------
(* Events and campaigns *)

EventsGetAll(ls, partnerCode) ==
    LET events == loadFromStorage(ls, COLLECTION_KEYS.EVENTS, <<>>)
    IN  IF Truthy(partnerCode)
        THEN SelectSeq(events, LAMBDA e : e.partnerCode = partnerCode.value)
        ELSE events

EventsCreate(event, userId, a1, a2) ==
    LET events == EventsGetAll(localStorage, Unsupplied)
        updated == Append(events, event)
        r1 == saveToStorage(localStorage, COLLECTION_KEYS.EVENTS, updated, a1)
        log == [ userId |-> userId, action |-> "CREATE", entityType |-> "event",
                 entityId |-> event.id, partnerCode |-> event.partnerCode ]
        r2 == Audited(r1, log, a2)
    IN  /\ Rejections(a1, a2) <= MaxFaults - faults
        /\ AfterAudited(r1, r2, log, a1, a2)
        /\ lastOp' = [ op |-> "Events.create", arg |-> event,
                       pre |-> events, wrote |-> ~r1.threw, threw |-> r2.threw ]
        /\ UNCHANGED lastSaved

CampaignsGetAll(ls) == loadFromStorage(ls, COLLECTION_KEYS.CAMPAIGNS, <<>>)

CampaignsLogCampaign(campaign, userId, a1, a2) ==
    LET campaigns == CampaignsGetAll(localStorage)
        updated == <<campaign>> \o campaigns
        r1 == saveToStorage(localStorage, COLLECTION_KEYS.CAMPAIGNS, updated, a1)
        log == [ userId |-> userId, action |-> "EMAIL_SENT", entityType |-> "campaign",
                 entityId |-> campaign.id, partnerCode |-> NoPartner ]
        r2 == Audited(r1, log, a2)
    IN  /\ Rejections(a1, a2) <= MaxFaults - faults
        /\ AfterAudited(r1, r2, log, a1, a2)
        /\ lastOp' = [ op |-> "Campaigns.logCampaign", arg |-> campaign,
                       pre |-> campaigns, wrote |-> ~r1.threw, threw |-> r2.threw ]
        /\ UNCHANGED lastSaved

----------------------------------------------------------------------------
(* Admins and access control *)

SuperAdmin == "Super Admin (HQ)"
RegionalAdmin == "Regional Admin (Cluster)"
CommunityAdmin == "Community Admin (Local)"

\* the built-in roster used while no roster is stored
MOCK_ADMIN_TEAM ==
    << [id |-> "a1", role |-> SuperAdmin, assignedCodes |-> <<>>],
       [id |-> "a2", role |-> RegionalAdmin, assignedCodes |-> <<"P1">>] >>

AdminsGetAll(ls) == loadFromStorage(ls, COLLECTION_KEYS.ADMINS, MOCK_ADMIN_TEAM)

AdminsGetById(ls, id) == FindById(AdminsGetAll(ls), id)

\* mutant of hasAccess: any admin that is not a community admin sees everything
hasAccess_notCommunity(ls, userId, partnerCode) ==
    LET admin == AdminsGetById(ls, userId)
    IN  IF admin = Undefined THEN FALSE
        ELSE IF admin.role # CommunityAdmin THEN TRUE
        ELSE partnerCode \in Range(admin.assignedCodes)

hasAccess(ls, userId, partnerCode) ==
    LET admin == AdminsGetById(ls, userId)
    IN  IF admin = Undefined THEN FALSE
        ELSE IF admin.role = SuperAdmin THEN TRUE
        ELSE partnerCode \in Range(admin.assignedCodes)

\* a call of Admins.hasAccess: reads only
AdminsHasAccess(userId, partnerCode) ==
    /\ lastOp' = [ op |-> "Admins.hasAccess", userId |-> userId,
                   partnerCode |-> partnerCode,
                   result |-> hasAccess(localStorage, userId, partnerCode),
                   threw |-> FALSE ]
    /\ UNCHANGED <<localStorage, auditSeq, auditHistory, lastSaved, faults>>

----------------------------------------------------------------------------
(* Bulk save and get-all of the six collections.                           *)
(* operations module: Invoices.save, Agreements.save, Events.save,         *)
(* Campaigns.save, Admins.save, Registry.save and the getAll() of each.    *)
(* LocalDB: saveInvoices, ..., saveMasterRegistry and getInvoices, ...     *)

CollectionKey(c) ==
    CASE c = "invoices"   -> COLLECTION_KEYS.INVOICES
      [] c = "agreements" -> COLLECTION_KEYS.AGREEMENTS
      [] c = "events"     -> COLLECTION_KEYS.EVENTS
      [] c = "campaigns"  -> COLLECTION_KEYS.CAMPAIGNS
      [] c = "admins"     -> COLLECTION_KEYS.ADMINS
      [] c = "registry"   -> COLLECTION_KEYS.REGISTRY

\* what getAll() / getX() returns while nothing readable is stored
Fallback(c) == IF c = "admins" THEN MOCK_ADMIN_TEAM ELSE <<>>

RepositorySave(c, data, accepted) ==
    LET r == saveToStorage(localStorage, CollectionKey(c), data, accepted)
    IN  /\ localStorage' = r.ls
        /\ lastSaved' = IF r.threw THEN lastSaved
                        ELSE [lastSaved EXCEPT ![c] = [saved |-> TRUE, value |-> data]]
        /\ lastOp' = [ op |-> "save", coll |-> c, wrote |-> ~r.threw, threw |-> r.threw ]
        /\ UNCHANGED <<auditSeq, auditHistory>>

RepositoryGetAll(c) ==
    /\ lastOp' = [ op |-> "getAll", coll |-> c,
                   result |-> loadFromStorage(localStorage, CollectionKey(c), Fallback(c)),
                   threw |-> FALSE ]
    /\ UNCHANGED <<localStorage, lastSaved, auditSeq, auditHistory>>

LocalDBSave(c, data, accepted) ==
    LET r == saveItem(localStorage, CollectionKey(c), data, accepted)
    IN  /\ localStorage' = r.ls
        /\ lastSaved' = IF accepted
                        THEN [lastSaved EXCEPT ![c] = [saved |-> TRUE, value |-> data]]
                        ELSE lastSaved
        /\ lastOp' = [ op |-> "save", coll |-> c, wrote |-> accepted, threw |-> r.threw ]
        /\ UNCHANGED <<auditSeq, auditHistory>>

LocalDBGet(c) ==
    /\ lastOp' = [ op |-> "getAll", coll |-> c,
                   result |-> loadItem(localStorage, CollectionKey(c), Fallback(c)),
                   threw |-> FALSE ]
    /\ UNCHANGED <<localStorage, lastSaved, auditSeq, auditHistory>>

----------------------------------------------------------------------------
(* Idle values of the client-side history variables *)

NoOp == [op |-> "none", threw |-> FALSE]

\* no browsing context is in the middle of a create
NoWriters == <<>>

Collections == {"invoices", "agreements", "events", "campaigns", "admins", "registry"}

NotSaved == [saved |-> FALSE]

----------------------------------------------------------------------------
(* Server side: the Netlify functions.  HTTP events, tokens, the database. *)

\* process.env.JWT_SECRET when the variable is not set
Unset == "(unset)"

\* !process.env.JWT_SECRET
SecretMissing(secret) == secret \in {Unset, ""}

\* what follows 'Bearer ' in a header: nothing, junk, or a signed token
EmptyToken == [kind |-> "empty"]
Garbage == [kind |-> "garbage"]
Jwt(key, exp) == [kind |-> "jwt", key |-> key, hasExp |-> TRUE, exp |-> exp]
JwtForever(key) == [kind |-> "jwt", key |-> key, hasExp |-> FALSE, exp |-> 0]

\* mutant of jwtVerify: the expiry is not looked at
jwtVerify_noExpiry(token, secret, t) ==
    /\ token.kind = "jwt"
    /\ token.key = secret

\* jwt.verify(token, secret) returns (TRUE) or throws (FALSE)
jwtVerify(token, secret, t) ==
    /\ token.kind = "jwt"
    /\ token.key = secret
    /\ token.hasExp => t < token.exp

\* jwt.sign(payload, secret, { expiresIn })
jwtSign(secret, t, expiresIn) == Jwt(secret, t + expiresIn)

\* a header value: absent, or a text made of a scheme prefix and the rest
AbsentHeader == [present |-> FALSE]
Header(prefix, token) == [present |-> TRUE, prefix |-> prefix, token |-> token]
EmptyHeader == Header("", EmptyToken)

\* truthiness of a header value: present and not the empty string
HeaderTruthy(h) == h.present /\ ~(h.prefix = "" /\ h.token = EmptyToken)

\* the value of a body property that was not sent, and JSON null
NoData == [kind |-> "undefined"]
NullData == [kind |-> "null"]
ObjectData(fields) == [kind |-> "object", fields |-> fields]
ArrayData(items) == [kind |-> "array", items |-> items]
Falsy(data) == data.kind \in {"undefined", "null"}

\* event.body: null, or a text that is JSON or not
NullBody == [kind |-> "null"]
BadJson == [kind |-> "text", parses |-> FALSE]

\* JSON.parse(event.body || '{}')
ParseBody(body, empty) ==
    IF body.kind = "null" THEN [threw |-> FALSE, json |-> empty]
    ELSE IF ~body.parses THEN [threw |-> TRUE]
    ELSE [threw |-> FALSE, json |-> body.json]

Reply(status, body) == [statusCode |-> status, body |-> body]
ErrorBody(msg) == [error |-> msg]

\* what a handler run ends in: the response, the database, the number of
\* storage queries it executed, whether it got past authentication
Outcome(resp, d, q, auth) ==
    [response |-> resp, db |-> d, queries |-> q, passedAuth |-> auth]

----------------------------------------------------------------------------
(* The API gateway (netlify/functions/api.ts) *)

entityTableMap ==
    {"developers", "invoices", "events", "admins", "agreements", "campaigns", "registry"}

\* properties every plain object inherits from Object.prototype
ObjectPrototypeProps ==
    {"constructor", "toString", "valueOf", "hasOwnProperty", "isPrototypeOf",
     "propertyIsEnumerable", "toLocaleString", "__proto__"}

\* entityTableMap[type]: a table name, an inherited non-string value, or undefined
entityTableMapLookup(type) ==
    IF type \in entityTableMap THEN [found |-> "own", name |-> type]
    ELSE IF type \in ObjectPrototypeProps THEN [found |-> "inherited"]
    ELSE [found |-> "none"]

Letters ==
    {"a","b","c","d","e","f","g","h","i","j","k","l","m",
     "n","o","p","q","r","s","t","u","v","w","x","y","z",
     "A","B","C","D","E","F","G","H","I","J","K","L","M",
     "N","O","P","Q","R","S","T","U","V","W","X","Y","Z"}

Digits == <<"0","1","2","3","4","5","6","7","8","9">>

\* mutant of isValidColumnName: only the first character is checked
isValidColumnName_firstCharOnly(name) ==
    /\ Len(name) >= 1
    /\ name[1] \in Letters \cup {"_"}

\* /^[a-zA-Z_][a-zA-Z0-9_]*$/.test(name); a name is its sequence of characters
isValidColumnName(name) ==
    /\ Len(name) >= 1
    /\ name[1] \in Letters \cup {"_"}
    /\ \A i \in 2..Len(name) : name[i] \in Letters \cup Range(Digits) \cup {"_"}

\* mutant of ObjectKeys: an array has no keys
ObjectKeys_noIndexKeys(data) ==
    IF data.kind = "object"
    THEN [i \in 1..Len(data.fields) |-> data.fields[i].name]
    ELSE <<>>

\* Object.keys(data): an object's own names in order, an array's indices
ObjectKeys(data) ==
    IF data.kind = "object"
    THEN [i \in 1..Len(data.fields) |-> data.fields[i].name]
    ELSE [i \in 1..Len(data.items) |-> << Digits[i] >>]

\* Object.values(data)
ObjectValues(data) ==
    IF data.kind = "object"
    THEN [i \in 1..Len(data.fields) |-> data.fields[i].value]
    ELSE data.items

\* query('SELECT * FROM <table>'): the rows, or the database's error
dbSelect(d, tableName, ok) ==
    IF ok THEN [failed |-> FALSE, rows |-> d[tableName]] ELSE [failed |-> TRUE]

\* query('INSERT INTO <table> (<columns>) VALUES (...) RETURNING *', values):
\* an error for a text that is no statement (no table name, no column) and
\* when the database refuses; otherwise the row is added and returned
dbInsert(d, tableName, keys, values, ok) ==
    IF tableName.found # "own" \/ Len(keys) = 0 \/ ~ok
    THEN [failed |-> TRUE]
    ELSE LET row == [i \in 1..Len(keys) |-> [name |-> keys[i], value |-> values[i]]]
         IN  [failed |-> FALSE,
              db |-> [d EXCEPT ![tableName.name] = Append(@, row)],
              rows |-> << row >>]

\* mutant of GetTableName: invoices and events read each other's table
GetTableName_swapped(type) ==
    IF type = "invoices" THEN Supplied("events")
    ELSE IF type = "events" THEN Supplied("invoices")
    ELSE IF type \in entityTableMap THEN Supplied(type)
    ELSE Unsupplied

\* the switch on the GET type parameter
GetTableName(type) ==
    CASE type = "developers" -> Supplied("developers")
      [] type = "invoices"   -> Supplied("invoices")
      [] type = "events"     -> Supplied("events")
      [] type = "admins"     -> Supplied("admins")
      [] type = "agreements" -> Supplied("agreements")
      [] type = "campaigns"  -> Supplied("campaigns")
      [] type = "registry"   -> Supplied("registry")
      [] OTHER               -> Unsupplied

\* mutant of handleGet: the collection is read before the type is checked
handleGet_queryFirst(event, d, dbOk) ==
    LET type == event.queryType
        t == IF Truthy(type) THEN GetTableName(type.value) ELSE Unsupplied
        r == dbSelect(d, IF t.supplied THEN t.value ELSE "developers", dbOk)
    IN  IF ~Truthy(type)
        THEN Outcome(Reply(400, ErrorBody("Missing type parameter")), d, 1, TRUE)
        ELSE IF ~t.supplied
        THEN Outcome(Reply(400, ErrorBody("Invalid type parameter")), d, 1, TRUE)
        ELSE IF r.failed
        THEN Outcome(Reply(500, ErrorBody("Internal server error")), d, 1, TRUE)
        ELSE Outcome(Reply(200, [rows |-> r.rows]), d, 1, TRUE)

\* the GET branch
handleGet(event, d, dbOk) ==
    LET type == event.queryType
    IN  IF ~Truthy(type)
        THEN Outcome(Reply(400, ErrorBody("Missing type parameter")), d, 0, TRUE)
        ELSE LET t == GetTableName(type.value)
             IN  IF ~t.supplied
                 THEN Outcome(Reply(400, ErrorBody("Invalid type parameter")), d, 0, TRUE)
                 ELSE LET r == dbSelect(d, t.value, dbOk)
                      IN  IF r.failed
                          THEN Outcome(Reply(500, ErrorBody("Internal server error")), d, 1, TRUE)
                          ELSE Outcome(Reply(200, [rows |-> r.rows]), d, 1, TRUE)

\* the POST branch
handlePost(event, d, dbOk) ==
    LET parsed == ParseBody(event.body, [type |-> Unsupplied, data |-> NoData])
    IN  IF parsed.threw
        THEN Outcome(Reply(500, ErrorBody("Internal server error")), d, 0, TRUE)
        ELSE
        LET type == parsed.json.type
            data == parsed.json.data
        IN  IF ~Truthy(type) \/ Falsy(data)
            THEN Outcome(Reply(400, ErrorBody("Missing type or data in request body")), d, 0, TRUE)
            ELSE
            LET tableName == entityTableMapLookup(type.value)
                keys == ObjectKeys(data)
            IN  IF tableName.found = "none"
                THEN Outcome(Reply(400, ErrorBody("Invalid type parameter")), d, 0, TRUE)
                ELSE IF \E i \in 1..Len(keys) : ~isValidColumnName(keys[i])
                THEN Outcome(Reply(400, ErrorBody("Invalid column name in data")), d, 0, TRUE)
                ELSE LET r == dbInsert(d, tableName, keys, ObjectValues(data), dbOk)
                     IN  IF r.failed
                         THEN Outcome(Reply(500, ErrorBody("Internal server error")), d, 1, TRUE)
                         ELSE Outcome(Reply(200, [row |-> r.rows[1]]), r.db, 1, TRUE)

\* the gateway's handler
handler(event, d, secret, t, dbOk) ==
    LET authHeader == IF HeaderTruthy(event.headers.authorization)
                      THEN event.headers.authorization
                      ELSE event.headers.Authorization
    IN  IF ~HeaderTruthy(authHeader) \/ authHeader.prefix # "Bearer "
        THEN Outcome(Reply(401, ErrorBody("Unauthorized")), d, 0, FALSE)
        ELSE IF SecretMissing(secret)
        THEN Outcome(Reply(500, ErrorBody("Internal server error")), d, 0, FALSE)
        ELSE IF ~jwtVerify(authHeader.token, secret, t)
        THEN Outcome(Reply(401, ErrorBody("Invalid token")), d, 0, FALSE)
        ELSE IF event.httpMethod = "GET" THEN handleGet(event, d, dbOk)
        ELSE IF event.httpMethod = "POST" THEN handlePost(event, d, dbOk)
        ELSE Outcome(Reply(405, ErrorBody("Method not allowed")), d, 0, TRUE)

----------------------------------------------------------------------------
(* The login handlers: the auth function exists in three variants          *)

\* a bcrypt hash of a password
bcryptHash(password) == [bcrypt |-> password]

\* mutant of bcryptCompare: every password matches
bcryptCompare_always(password, hash) == TRUE

\* bcrypt.compare(password, hash), for a password that is a string
bcryptCompare(password, hash) == hash = bcryptHash(password)

\* query('SELECT ... FROM admins WHERE email = $1', [email])
dbSelectAdmin(d, email, ok) ==
    IF ok THEN [failed |-> FALSE, rows |-> SelectSeq(d["admins"], LAMBDA r : r.email = email)]
    ELSE [failed |-> TRUE]

\* const { password: _, ...userWithoutPassword } = user
userWithoutPassword(user) == [f \in DOMAIN user \ {"password"} |-> user[f]]

InvalidCredentials == Reply(401, ErrorBody("Invalid credentials"))
InternalServerError == Reply(500, ErrorBody("Internal server error"))

NoCredentials == [email |-> Unsupplied, password |-> Unsupplied]

\* first variant: the credentials are checked, then the secret
authHandlerA(event, d, secret, t, dbOk) ==
    IF event.httpMethod # "POST"
    THEN Outcome(Reply(405, ErrorBody("Method Not Allowed")), d, 0, FALSE)
    ELSE
    LET parsed == ParseBody(event.body, NoCredentials)
    IN  IF parsed.threw
        THEN Outcome(Reply(400, ErrorBody("Invalid request body")), d, 0, FALSE)
        ELSE IF ~Truthy(parsed.json.email) \/ ~Truthy(parsed.json.password)
        THEN Outcome(Reply(400, ErrorBody("Email and password are required")), d, 0, FALSE)
        ELSE
        LET result == dbSelectAdmin(d, parsed.json.email.value, dbOk)
        IN  IF result.failed THEN Outcome(InternalServerError, d, 1, FALSE)
            ELSE IF Len(result.rows) = 0 THEN Outcome(InvalidCredentials, d, 1, FALSE)
            ELSE IF ~bcryptCompare(parsed.json.password.value, result.rows[1].password)
            THEN Outcome(InvalidCredentials, d, 1, FALSE)
            ELSE IF SecretMissing(secret) THEN Outcome(InternalServerError, d, 1, FALSE)
            ELSE Outcome(Reply(200, [token |-> jwtSign(secret, t, OneHour),
                                     user |-> userWithoutPassword(result.rows[1])]),
                         d, 1, TRUE)

\* second variant: the secret is checked first
authHandlerB(event, d, secret, t, dbOk) ==
    IF event.httpMethod # "POST"
    THEN Outcome(Reply(405, ErrorBody("Method not allowed")), d, 0, FALSE)
    ELSE IF SecretMissing(secret) THEN Outcome(InternalServerError, d, 0, FALSE)
    ELSE
    LET parsed == ParseBody(event.body, NoCredentials)
    IN  IF parsed.threw
        THEN Outcome(Reply(400, ErrorBody("Invalid request body")), d, 0, FALSE)
        ELSE IF ~Truthy(parsed.json.email) \/ ~Truthy(parsed.json.password)
        THEN Outcome(Reply(400, ErrorBody("Email and password are required")), d, 0, FALSE)
        ELSE
        LET result == dbSelectAdmin(d, parsed.json.email.value, dbOk)
        IN  IF result.failed THEN Outcome(InternalServerError, d, 1, FALSE)
            ELSE IF Len(result.rows) = 0 THEN Outcome(InvalidCredentials, d, 1, FALSE)
            ELSE IF ~bcryptCompare(parsed.json.password.value, result.rows[1].password)
            THEN Outcome(InvalidCredentials, d, 1, FALSE)
            ELSE Outcome(Reply(200, [token |-> jwtSign(secret, t, OneDay),
                                     user |-> userWithoutPassword(result.rows[1])]),
                         d, 1, TRUE)

\* third variant: one try block, the secret is never checked; jwt.sign
\* throws when it is given no secret
authHandlerC(event, d, secret, t, dbOk) ==
    IF event.httpMethod # "POST"
    THEN Outcome(Reply(405, ErrorBody("Method not allowed")), d, 0, FALSE)
    ELSE
    LET parsed == ParseBody(event.body, NoCredentials)
    IN  IF parsed.threw THEN Outcome(InternalServerError, d, 0, FALSE)
        ELSE IF ~Truthy(parsed.json.email) \/ ~Truthy(parsed.json.password)
        THEN Outcome(Reply(400, ErrorBody("Email and password are required")), d, 0, FALSE)
        ELSE
        LET result == dbSelectAdmin(d, parsed.json.email.value, dbOk)
        IN  IF result.failed THEN Outcome(InternalServerError, d, 1, FALSE)
            ELSE IF Len(result.rows) = 0 THEN Outcome(InvalidCredentials, d, 1, FALSE)
            ELSE IF ~bcryptCompare(parsed.json.password.value, result.rows[1].password)
            THEN Outcome(InvalidCredentials, d, 1, FALSE)
            ELSE IF SecretMissing(secret) THEN Outcome(InternalServerError, d, 1, FALSE)
            ELSE Outcome(Reply(200, [token |-> jwtSign(secret, t, OneDay),
                                     user |-> userWithoutPassword(result.rows[1])]),
                         d, 1, TRUE)

----------------------------------------------------------------------------
(* Steps of the server *)

NoEvent == [httpMethod |-> "(none)"]
NoResponse == [statusCode |-> 0]
NotRun == [handler |-> "(none)"]

Tables == entityTableMap

EmptyDb == [t \in Tables |-> <<>>]

\* a function ran: what the state keeps of it
Ran(name, event, o, dbOk) ==
    /\ db' = o.db
    /\ lastEvent' = event
    /\ lastResponse' = o.response
    /\ lastRun' = [ handler |-> name, at |-> now, queries |-> o.queries,
                    dbFailed |-> (o.queries > 0 /\ ~dbOk),
                    passedAuth |-> o.passedAuth ]

\* the clock advances
Tick ==
    /\ now < MaxClock
    /\ now' = now + 1
    /\ UNCHANGED <<jwtSecret, db, lastEvent, lastResponse, lastRun, created, localVars>>

ServerIdle ==
    /\ jwtSecret = Unset
    /\ now = 0
    /\ db = EmptyDb
    /\ lastEvent = NoEvent
    /\ lastResponse = NoResponse
    /\ lastRun = NotRun
    /\ created = {}

LocalIdle ==
    /\ localStorage = [k \in StorageKeys |-> NoItem]
    /\ auditSeq = 1
    /\ auditHistory = <<>>
    /\ lastOp = NoOp
    /\ lastSaved = [c \in Collections |-> NotSaved]
    /\ opCount = 0
    /\ faults = 0
    /\ impl = "operations"
    /\ writers = NoWriters

----------------------------------------------------------------------------
(* Initial states of the client-side specifications *)

InitLocal ==
    /\ localStorage = [k \in StorageKeys |-> NoItem]
    /\ auditSeq = 1
    /\ auditHistory = <<>>
    /\ lastOp = NoOp
    /\ lastSaved = [c \in Collections |-> NotSaved]
    /\ opCount = 0
    /\ faults = 0
    /\ impl \in {"operations", "LocalDB"}
    /\ writers = NoWriters
    /\ ServerIdle

----------------------------------------------------------------------------
(* Specification of the dataset-version store *)

VersionIds == {"v1", "v2"}

\* a version as the caller builds it; upload tells one upload from another
VersionInput(id) == [id |-> id, fileName |-> "data.csv", upload |-> opCount + 1]

InitVersions == InitLocal

VersionsSave ==
    /\ impl = "operations"
    /\ opCount < MaxVersionOps
    /\ UNCHANGED <<impl, writers, serverVars>>
    /\ \E id \in VersionIds, a1, a2 \in BOOLEAN :
            DatasetVersionsSave(VersionInput(id), "system", a1, a2)

VersionsDelete ==
    /\ impl = "operations"
    /\ opCount < MaxVersionOps
    /\ UNCHANGED <<impl, writers, serverVars>>
    /\ \E id \in VersionIds, a1, a2 \in BOOLEAN :
            DatasetVersionsDelete(id, "system", a1, a2)

LocalVersionsSave ==
    /\ impl = "LocalDB"
    /\ opCount < MaxVersionOps
    /\ UNCHANGED <<impl, writers, serverVars>>
    /\ \E id \in VersionIds, a \in BOOLEAN :
            saveDatasetVersion(VersionInput(id), a)

LocalVersionsDelete ==
    /\ impl = "LocalDB"
    /\ opCount < MaxVersionOps
    /\ UNCHANGED <<impl, writers, serverVars>>
    /\ \E id \in VersionIds, a \in BOOLEAN :
            deleteDatasetVersion(id, a)

NextVersions ==
    \/ VersionsSave
    \/ VersionsDelete
    \/ LocalVersionsSave
    \/ LocalVersionsDelete

SpecVersions == InitVersions /\ [][NextVersions]_vars

----------------------------------------------------------------------------
(* C4: after any sequence of dataset-version saves and deletes from an     *)
(* empty store, the store holds at most 5 versions, the newest first, and  *)
(* a save that the store takes onto 5 versions removes exactly the oldest: *)
(* the new store is the saved version followed by the 4 newest old ones.   *)

VersionSaveOps == {"DatasetVersions.save", "LocalDB.saveDatasetVersion"}

C4_VersionStoreCapped ==
    LET stored == DatasetVersionsGetAll(localStorage)
    IN  /\ Len(stored) <= 5
        /\ \A i, j \in 1..Len(stored) : i < j => stored[i].upload > stored[j].upload
        /\ (lastOp.op \in VersionSaveOps /\ lastOp.wrote /\ Len(lastOp.pre) = 5)
              => stored = <<lastOp.arg>> \o SubSeq(lastOp.pre, 1, 4)

C4_Witness ==
    /\ lastOp.op \in VersionSaveOps
    /\ lastOp.wrote
    /\ Len(lastOp.pre) = 5
    /\ Len(DatasetVersionsGetAll(localStorage)) = 5

----------------------------------------------------------------------------
(* Specification of the access check over a stored admin roster *)

AdminIds == {"a1", "a2"}
PartnerCodes == {"P1", "P2"}

AdminInputs ==
    { [id |-> i, role |-> r, assignedCodes |-> c] :
        i \in AdminIds,
        r \in {SuperAdmin, RegionalAdmin, CommunityAdmin},
        c \in {<<>>, <<"P1">>, <<"P2", "P1">>} }

SeqsUpTo(S, n) == UNION { [1..k -> S] : k \in 0..n }

\* the roster is what an earlier Admins.save stored, or nothing was stored yet
InitAdmins ==
    /\ \E item \in {NoItem} \cup
                    { JSONstringify(admins) : admins \in SeqsUpTo(AdminInputs, MaxRoster) } :
            localStorage = [k \in StorageKeys |->
                                IF k = COLLECTION_KEYS.ADMINS THEN item ELSE NoItem]
    /\ auditSeq = 1
    /\ auditHistory = <<>>
    /\ lastOp = NoOp
    /\ lastSaved = [c \in Collections |-> NotSaved]
    /\ opCount = 0
    /\ faults = 0
    /\ impl = "operations"
    /\ writers = NoWriters
    /\ ServerIdle

AdminsHasAccessStep ==
    /\ \E userId \in AdminIds \cup {"a3"}, partnerCode \in PartnerCodes \cup {"P3"} :
            AdminsHasAccess(userId, partnerCode)
    /\ UNCHANGED <<opCount, impl, writers, serverVars>>

NextAdmins == AdminsHasAccessStep

SpecAdmins == InitAdmins /\ [][NextAdmins]_vars

(* C2: Admins.hasAccess(userId, partnerCode) is false when the roster has  *)
(* no admin with that id, true for every partner code when that admin is a *)
(* Super Admin, and otherwise true exactly when partnerCode is one of that *)
(* admin's assignedCodes.  "That admin" is the first roster entry with the *)
(* id, the one getById returns.                                            *)

C2_HasAccess ==
    lastOp.op = "Admins.hasAccess" =>
        LET roster == AdminsGetAll(localStorage)
            hits == { i \in 1..Len(roster) : roster[i].id = lastOp.userId }
        IN  IF hits = {} THEN lastOp.result = FALSE
            ELSE LET admin == roster[CHOOSE i \in hits : \A j \in hits : i <= j]
                 IN  IF admin.role = "Super Admin (HQ)" THEN lastOp.result = TRUE
                     ELSE lastOp.result <=>
                            (\E k \in 1..Len(admin.assignedCodes) :
                                admin.assignedCodes[k] = lastOp.partnerCode)

C2_Witness ==
    /\ lastOp.op = "Admins.hasAccess"
    /\ lastOp.result = TRUE
    /\ getItem(localStorage, COLLECTION_KEYS.ADMINS) # NoItem
    /\ \E i \in 1..Len(AdminsGetAll(localStorage)) :
            /\ AdminsGetAll(localStorage)[i].id = lastOp.userId
            /\ AdminsGetAll(localStorage)[i].role = "Regional Admin (Cluster)"
            /\ \A j \in 1..(i-1) : AdminsGetAll(localStorage)[j].id # lastOp.userId

----------------------------------------------------------------------------
(* Specification of the audit log under the audited repository writes.     *)
(* A run starts with nothing recorded, or after AuditCap - 1 uploads of    *)
(* dataset version v1 by the system user: the log then holds their entries *)
(* and the version store the last five uploads.                            *)

UploadLog(id) ==
    [ userId |-> "system", action |-> "UPLOAD", entityType |-> "developer",
      entityId |-> id, partnerCode |-> NoPartner ]

AfterUploads(n) ==
    LET logs == [i \in 1..n |-> Stamped(UploadLog("v1"), n + 1 - i)]
        kept == IF n < VersionCap THEN n ELSE VersionCap
        versions == [i \in 1..kept |->
                        [id |-> "v1", fileName |-> "data.csv", upload |-> n + 1 - i]]
    IN  /\ localStorage =
              [k \in StorageKeys |->
                  IF n = 0 THEN NoItem
                  ELSE IF k = COLLECTION_KEYS.AUDIT_LOGS THEN JSONstringify(logs)
                  ELSE IF k = COLLECTION_KEYS.VERSIONS THEN JSONstringify(versions)
                  ELSE NoItem]
        /\ auditSeq = n + 1
        /\ auditHistory = logs

InitAudit ==
    /\ \E n \in {0, AuditCap - 1} : AfterUploads(n)
    /\ lastOp = NoOp
    /\ lastSaved = [c \in Collections |-> NotSaved]
    /\ opCount = 0
    /\ faults = 0
    /\ impl = "operations"
    /\ writers = NoWriters
    /\ ServerIdle

AuditInvoice == [id |-> "i1", partnerCode |-> "P1", totalAmount |-> Num(100), status |-> "Draft"]
AuditEvent == [id |-> "e1", title |-> "Meetup", partnerCode |-> "P1"]
AuditCampaign == [id |-> "c1", name |-> "Launch", status |-> "Completed"]

AuditVersionsSave ==
    /\ opCount < MaxAuditOps
    /\ \E a1, a2 \in BOOLEAN :
            DatasetVersionsSave([id |-> "v2", fileName |-> "data.csv", upload |-> auditSeq],
                                "system", a1, a2)
    /\ UNCHANGED <<impl, writers, serverVars>>

AuditVersionsDelete ==
    /\ opCount < MaxAuditOps
    /\ \E a1, a2 \in BOOLEAN : DatasetVersionsDelete("v1", "system", a1, a2)
    /\ UNCHANGED <<impl, writers, serverVars>>

AuditInvoicesCreate ==
    /\ opCount < MaxAuditOps
    /\ \E a1, a2 \in BOOLEAN : InvoicesCreate(AuditInvoice, "u1", a1, a2)
    /\ UNCHANGED <<impl, writers, serverVars>>

AuditInvoicesUpdate ==
    /\ opCount < MaxAuditOps
    /\ \E a1, a2 \in BOOLEAN : InvoicesUpdate("i1", [status |-> "Paid"], "u1", a1, a2)
    /\ UNCHANGED <<impl, writers, serverVars>>

AuditEventsCreate ==
    /\ opCount < MaxAuditOps
    /\ \E a1, a2 \in BOOLEAN : EventsCreate(AuditEvent, "u1", a1, a2)
    /\ UNCHANGED <<impl, writers, serverVars>>

AuditCampaignsLog ==
    /\ opCount < MaxAuditOps
    /\ \E a1, a2 \in BOOLEAN : CampaignsLogCampaign(AuditCampaign, "u1", a1, a2)
    /\ UNCHANGED <<impl, writers, serverVars>>

NextAudit ==
    \/ AuditVersionsSave
    \/ AuditVersionsDelete
    \/ AuditInvoicesCreate
    \/ AuditInvoicesUpdate
    \/ AuditEventsCreate
    \/ AuditCampaignsLog

SpecAudit == InitAudit /\ [][NextAudit]_vars

(* C3: after any sequence of audited operations the stored audit log holds *)
(* at most 1000 entries; once 1000 + k entries have been recorded, exactly *)
(* the 1000 most recently recorded remain, the most recent first.          *)

C3_AuditLogCapped ==
    LET logs == StoredAuditLogs
    IN  /\ Len(logs) <= 1000
        /\ Len(logs) = IF Len(auditHistory) < 1000 THEN Len(auditHistory) ELSE 1000
        /\ \A i \in 1..Len(logs) : logs[i] = auditHistory[i]
        /\ \A i \in 1..(Len(logs) - 1) : logs[i].id > logs[i+1].id

C3_Witness ==
    /\ Len(auditHistory) > 1000
    /\ Len(StoredAuditLogs) = 1000
    /\ lastOp.op = "Invoices.create"
    /\ ~lastOp.threw
    /\ StoredAuditLogs[1].entityId = lastOp.arg.id

AuditedOps ==
    {"Invoices.create", "Invoices.update", "Events.create", "Campaigns.logCampaign",
     "DatasetVersions.save", "DatasetVersions.delete"}

(* C12, as stated: whenever the collection write of an audited operation   *)
(* succeeds, the operation completes without error, even if persisting the *)
(* audit entry fails.                                                      *)

C12_AsStated ==
    (lastOp.op \in AuditedOps /\ lastOp.wrote) => ~lastOp.threw

----------------------------------------------------------------------------
(* Specification of the audit log query: entries are recorded by audited   *)
(* creates, then the log is queried under every combination of filters.    *)

QueryUsers == {"u1", "u2"}

QueryInvoices ==
    { [id |-> "i1", partnerCode |-> "P1", totalAmount |-> Num(100), status |-> "Draft"],
      [id |-> "i2", partnerCode |-> "P2", totalAmount |-> Num(100), status |-> "Draft"] }

\* the filters argument: left out, or an object whose six fields are each
\* left out or set; the empty string is among the values a caller may pass
FilterInputs ==
    { Unsupplied } \cup
    { Supplied([ userId |-> u, entityType |-> e, action |-> a, partnerCode |-> p,
                 startDate |-> sd, endDate |-> ed ]) :
        u \in {Unsupplied, Supplied(""), Supplied("u1")},
        e \in {Unsupplied, Supplied("invoice")},
        a \in {Unsupplied, Supplied("CREATE")},
        p \in {Unsupplied, Supplied(""), Supplied("P1")},
        sd \in {Unsupplied, Supplied(2)},
        ed \in {Unsupplied, Supplied(1)} }

QueryInvoicesCreate ==
    /\ opCount < MaxAuditOps
    /\ \E invoice \in QueryInvoices, userId \in QueryUsers :
            InvoicesCreate(invoice, userId, TRUE, TRUE)
    /\ UNCHANGED <<impl, writers, serverVars>>

QueryEventsCreate ==
    /\ opCount < MaxAuditOps
    /\ EventsCreate(AuditEvent, "u1", TRUE, TRUE)
    /\ UNCHANGED <<impl, writers, serverVars>>

GetAuditLogsCall ==
    /\ \E filters \in FilterInputs :
            lastOp' = [ op |-> "getAuditLogs", filters |-> filters,
                        result |-> getAuditLogs(localStorage, filters), threw |-> FALSE ]
    /\ UNCHANGED <<localStorage, auditSeq, auditHistory, lastSaved, opCount, faults,
                   impl, writers, serverVars>>

NextQuery ==
    \/ QueryInvoicesCreate
    \/ QueryEventsCreate
    \/ GetAuditLogsCall

InitQuery == InitLocal /\ impl = "operations"

SpecQuery == InitQuery /\ [][NextQuery]_vars

\* a string filter that is set, whatever its value
MatchesSupplied(l, f) ==
    /\ f.userId.supplied => l.userId = f.userId.value
    /\ f.entityType.supplied => l.entityType = f.entityType.value
    /\ f.action.supplied => l.action = f.action.value
    /\ f.partnerCode.supplied => l.partnerCode = f.partnerCode.value
    /\ f.startDate.supplied => f.startDate.value <= l.timestamp
    /\ f.endDate.supplied => l.timestamp <= f.endDate.value

\* a string filter restricts when it is set to a non-empty string
Restricts(arg) == arg.supplied /\ arg.value # ""

MatchesRestricting(l, f) ==
    /\ Restricts(f.userId) => l.userId = f.userId.value
    /\ Restricts(f.entityType) => l.entityType = f.entityType.value
    /\ Restricts(f.action) => l.action = f.action.value
    /\ Restricts(f.partnerCode) => l.partnerCode = f.partnerCode.value
    /\ f.startDate.supplied => f.startDate.value <= l.timestamp
    /\ f.endDate.supplied => l.timestamp <= f.endDate.value

(* C16, as stated: getAuditLogs(filters) returns exactly the stored        *)
(* entries that match every supplied filter, in stored order, for every    *)
(* supplied filter value including the empty string.                       *)

C16_AsStated ==
    (lastOp.op = "getAuditLogs") =>
        lastOp.result =
            IF lastOp.filters.supplied
            THEN SelectSeq(StoredAuditLogs, LAMBDA l : MatchesSupplied(l, lastOp.filters.value))
            ELSE StoredAuditLogs

(* C16, corrected: getAuditLogs(filters) returns exactly the stored        *)
(* entries that match every filter set to a non-empty value and the date   *)
(* range, in stored order; a string filter that is left out or is the      *)
(* empty string places no restriction.                                     *)

C16_TruthyFilters ==
    (lastOp.op = "getAuditLogs") =>
        lastOp.result =
            IF lastOp.filters.supplied
            THEN SelectSeq(StoredAuditLogs, LAMBDA l : MatchesRestricting(l, lastOp.filters.value))
            ELSE StoredAuditLogs

C16_Witness ==
    /\ lastOp.op = "getAuditLogs"
    /\ lastOp.filters.supplied
    /\ lastOp.filters.value.userId = Supplied("u1")
    /\ lastOp.filters.value.partnerCode = Supplied("")
    /\ lastOp.filters.value.startDate = Supplied(2)
    /\ Len(StoredAuditLogs) = 2
    /\ Len(lastOp.result) = 1
    /\ StoredAuditLogs[2].userId = "u1"

----------------------------------------------------------------------------
(* Specification of the invoice repository *)

InvoiceIds == {"i1", "i2"}

\* partner codes a caller may pass, the empty string among them
QueryCodes == {"", "P1", "P2"}

InvoiceInputs ==
    { [id |-> i, partnerCode |-> p, totalAmount |-> Num(100), status |-> "Draft"] :
        i \in InvoiceIds, p \in QueryCodes }

InitInvoices == InitLocal /\ impl = "operations"

InvoicesSaveStep ==
    /\ opCount < MaxInvoiceOps
    /\ \E invoices \in SeqsUpTo(InvoiceInputs, 1), a \in BOOLEAN :
            /\ (~a) => faults < MaxFaults
            /\ RepositorySave("invoices", invoices, a)
            /\ faults' = IF a THEN faults ELSE faults + 1
    /\ opCount' = opCount + 1
    /\ UNCHANGED <<impl, writers, serverVars>>

InvoicesCreateStep ==
    /\ opCount < MaxInvoiceOps
    /\ \E invoice \in InvoiceInputs, a1, a2 \in BOOLEAN :
            InvoicesCreate(invoice, "u1", a1, a2)
    /\ UNCHANGED <<impl, writers, serverVars>>

InvoicesUpdateStep ==
    /\ opCount < MaxInvoiceOps
    /\ \E id \in InvoiceIds, updates \in {[status |-> "Paid"], [partnerCode |-> "P2"]},
          a1, a2 \in BOOLEAN :
            InvoicesUpdate(id, updates, "u1", a1, a2)
    /\ UNCHANGED <<impl, writers, serverVars>>

NextInvoices ==
    \/ InvoicesSaveStep
    \/ InvoicesCreateStep
    \/ InvoicesUpdateStep

SpecInvoices == InitInvoices /\ [][NextInvoices]_vars

(* C5, as stated: after Invoices.create(inv), getById(inv.id) returns inv, *)
(* getAll(p) contains inv when p = inv.partnerCode, and getAll(p) does not *)
(* contain inv for every supplied p that differs from inv.partnerCode.     *)

C5_AsStated ==
    (lastOp.op = "Invoices.create" /\ lastOp.wrote) =>
        LET inv == lastOp.arg
        IN  /\ InvoicesGetById(localStorage, inv.id) = inv
            /\ \A p \in QueryCodes :
                LET got == InvoicesGetAll(localStorage, Supplied(p))
                IN  /\ (p = inv.partnerCode) => (\E k \in 1..Len(got) : got[k] = inv)
                    /\ (p # inv.partnerCode) => (\A k \in 1..Len(got) : got[k] # inv)

(* C5, amended: ... and getAll(p) does not contain inv for every non-empty *)
(* p that differs from inv.partnerCode; an empty-string p is no filter.    *)

C5_CreateThenQuery ==
    (lastOp.op = "Invoices.create" /\ lastOp.wrote) =>
        LET inv == lastOp.arg
        IN  /\ InvoicesGetById(localStorage, inv.id) = inv
            /\ \A p \in QueryCodes :
                LET got == InvoicesGetAll(localStorage, Supplied(p))
                IN  /\ (p = inv.partnerCode) => (\E k \in 1..Len(got) : got[k] = inv)
                    /\ (p # inv.partnerCode /\ p # "")
                            => (\A k \in 1..Len(got) : got[k] # inv)
                    /\ (p = "") => got = InvoicesGetAll(localStorage, Unsupplied)

C5_Witness ==
    /\ lastOp.op = "Invoices.create"
    /\ ~lastOp.threw
    /\ lastOp.arg.partnerCode = "P1"
    /\ Len(lastOp.pre) = 1
    /\ lastOp.pre[1].id = lastOp.arg.id
    /\ lastOp.pre[1].partnerCode = "P2"
    /\ Len(InvoicesGetAll(localStorage, Supplied("P2"))) = 1

\* the id is in no invoice of the collection
AbsentId(invoices, id) == \A i \in 1..Len(invoices) : invoices[i].id # id

(* C17: Invoices.update with an id that is not in the invoice collection   *)
(* is a silent no-op: it raises no error, leaves the stored collection     *)
(* unchanged, and adds no audit entry.                                     *)

C17_UpdateAbsentIsNoOp ==
    [][ (/\ lastOp'.op = "Invoices.update"
         /\ AbsentId(InvoicesGetAll(localStorage, Unsupplied), lastOp'.arg)) =>
            /\ ~lastOp'.threw
            /\ InvoicesGetAll(localStorage', Unsupplied) = InvoicesGetAll(localStorage, Unsupplied)
            /\ localStorage' = localStorage
            /\ auditHistory' = auditHistory ]_vars

C17_Witness ==
    /\ lastOp.op = "Invoices.update"
    /\ Len(lastOp.pre) > 0
    /\ AbsentId(lastOp.pre, lastOp.arg)
    /\ InvoicesGetAll(localStorage, Unsupplied) = lastOp.pre
    /\ ~lastOp.threw

\* the collection holds the id at two places at least
TwiceStored(invoices, id) ==
    \E i, j \in 1..Len(invoices) : i < j /\ invoices[i].id = id /\ invoices[j].id = id

\* the first place of the id in the collection, where the newest create put it
FirstPlace(invoices, id) ==
    CHOOSE i \in 1..Len(invoices) :
        invoices[i].id = id /\ \A j \in 1..(i-1) : invoices[j].id # id

(* C23: Invoices.create does not reject an id that is already present:     *)
(* after create(a) and create(b) with b.id = a.id both invoices are        *)
(* stored and getById(a.id) returns b, the most recently created; a        *)
(* following update(a.id, fields) changes only b and leaves a unchanged.    *)

C23_DuplicateIds ==
    [][ LET pre == InvoicesGetAll(localStorage, Unsupplied)
            post == InvoicesGetAll(localStorage', Unsupplied)
        IN  /\ (/\ lastOp'.op = "Invoices.create"
                /\ lastOp'.wrote
                /\ ~AbsentId(pre, lastOp'.arg.id)) =>
                    /\ post = <<lastOp'.arg>> \o pre
                    /\ InvoicesGetById(localStorage', lastOp'.arg.id) = lastOp'.arg
            /\ (/\ lastOp'.op = "Invoices.update"
                /\ lastOp'.wrote
                /\ TwiceStored(pre, lastOp'.arg)) =>
                    /\ Len(post) = Len(pre)
                    /\ post[FirstPlace(pre, lastOp'.arg)] =
                            Merge(pre[FirstPlace(pre, lastOp'.arg)], lastOp'.updates)
                    /\ \A k \in 1..Len(pre) :
                            (k # FirstPlace(pre, lastOp'.arg)) => post[k] = pre[k] ]_vars

C23_Witness ==
    /\ lastOp.op = "Invoices.update"
    /\ lastOp.wrote
    /\ Len(lastOp.pre) = 2
    /\ lastOp.pre[1].id = lastOp.arg
    /\ lastOp.pre[2].id = lastOp.arg
    /\ lastOp.pre[1] # lastOp.pre[2]
    /\ Len(auditHistory) = 3
    /\ auditHistory[2].action = "INVOICE_CREATED"
    /\ auditHistory[3].action = "INVOICE_CREATED"
    /\ InvoicesGetAll(localStorage, Unsupplied)[1] # lastOp.pre[1]
    /\ InvoicesGetAll(localStorage, Unsupplied)[2] = lastOp.pre[2]

\* the operations of the invoice repository that write the collection
InvoiceWrites == {"save", "Invoices.create", "Invoices.update"}

(* C18, as stated: every write that changes a stored collection emits an   *)
(* audit log entry: each successful create, update of an existing id and   *)
(* bulk save adds an entry to the audit log.                               *)

C18_AsStated ==
    [][ (/\ lastOp'.op \in InvoiceWrites
         /\ lastOp'.wrote
         /\ ~lastOp'.threw) =>
            /\ Len(loadFromStorage(localStorage', COLLECTION_KEYS.AUDIT_LOGS, <<>>))
                    = Len(StoredAuditLogs) + 1
            /\ Len(auditHistory') = Len(auditHistory) + 1 ]_vars

\* the part that holds: a successful create or update of an existing id
C18_CreateAndUpdateAudited ==
    [][ (/\ lastOp'.op \in InvoiceWrites \ {"save"}
         /\ lastOp'.wrote
         /\ ~lastOp'.threw) =>
            /\ Len(loadFromStorage(localStorage', COLLECTION_KEYS.AUDIT_LOGS, <<>>))
                    = Len(StoredAuditLogs) + 1
            /\ Len(auditHistory') = Len(auditHistory) + 1 ]_vars

----------------------------------------------------------------------------
(* Specification of two browsing contexts of the application, each running *)
(* one create on the same collection of the store they share.  Within a    *)
(* context a create runs to completion; between contexts the accesses to   *)
(* the store are the atomic steps: getAll, save, then inside              *)
(* createAuditLog the load of the log and its save.                        *)

Writers == {1, 2}

\* the collection both contexts write: Invoices.create or Events.create
WriterRepos == {"invoices", "events"}

WriterEntity(repo, w) ==
    IF repo = "invoices"
    THEN [ id |-> IF w = 1 THEN "i1" ELSE "i2", partnerCode |-> "P1",
           totalAmount |-> Num(100), status |-> "Draft" ]
    ELSE [ id |-> IF w = 1 THEN "e1" ELSE "e2", title |-> "Meetup", partnerCode |-> "P1" ]

\* invoices.unshift(invoice) / events.push(event) on the array getAll() returned
AddEntity(repo, snapshot, entity) ==
    IF repo = "invoices" THEN <<entity>> \o snapshot ELSE Append(snapshot, entity)

\* the audit entry each create records
WriterLog(repo, entity, userId) ==
    IF repo = "invoices"
    THEN [ userId |-> userId, action |-> "INVOICE_CREATED", entityType |-> "invoice",
           entityId |-> entity.id, partnerCode |-> entity.partnerCode ]
    ELSE [ userId |-> userId, action |-> "CREATE", entityType |-> "event",
           entityId |-> entity.id, partnerCode |-> entity.partnerCode ]

\* mutant of WriterSave: the collection is read again at the moment of the write
WriterSave_rereads(ls, repo, snapshot, entity, accepted) ==
    saveToStorage(ls, CollectionKey(repo),
                  AddEntity(repo, loadFromStorage(ls, CollectionKey(repo), <<>>), entity),
                  accepted)

\* this.save(invoices): the array read earlier, with the entity added, replaces
\* the stored collection
WriterSave(ls, repo, snapshot, entity, accepted) ==
    saveToStorage(ls, CollectionKey(repo), AddEntity(repo, snapshot, entity), accepted)

InitWriters ==
    /\ localStorage = [k \in StorageKeys |-> NoItem]
    /\ auditSeq = 1
    /\ auditHistory = <<>>
    /\ lastOp = NoOp
    /\ lastSaved = [c \in Collections |-> NotSaved]
    /\ opCount = 0
    /\ faults = 0
    /\ impl = "operations"
    /\ \E repo \in WriterRepos :
            writers = [w \in Writers |->
                        [ pc |-> "start", repo |-> repo, entity |-> WriterEntity(repo, w),
                          snapshot |-> <<>>, logs |-> <<>>, readAt |-> 0, wroteAt |-> 0 ]]
    /\ ServerIdle

\* bookkeeping of one step of a context
WriterStepped(w, step, threw) ==
    /\ opCount' = opCount + 1
    /\ lastOp' = [ op |-> "create", writer |-> w, step |-> step, threw |-> threw ]
    /\ UNCHANGED <<lastSaved, impl, serverVars>>

\* const invoices = this.getAll()
WriterGetAll(w) ==
    /\ writers[w].pc = "start"
    /\ writers' = [writers EXCEPT
            ![w].pc = "read",
            ![w].snapshot = loadFromStorage(localStorage, CollectionKey(writers[w].repo), <<>>),
            ![w].readAt = opCount + 1]
    /\ WriterStepped(w, "getAll", FALSE)
    /\ UNCHANGED <<localStorage, auditSeq, auditHistory, faults>>

\* invoices.unshift(invoice); this.save(invoices)
WriterSaveStep(w) ==
    /\ writers[w].pc = "read"
    /\ \E accepted \in BOOLEAN :
        \E r \in {WriterSave(localStorage, writers[w].repo, writers[w].snapshot,
                             writers[w].entity, accepted)} :
            /\ (~accepted) => faults < MaxFaults
            /\ localStorage' = r.ls
            /\ faults' = IF accepted THEN faults ELSE faults + 1
            /\ writers' = [writers EXCEPT
                    ![w].pc = IF r.threw THEN "failed" ELSE "saved",
                    ![w].wroteAt = IF r.threw THEN 0 ELSE opCount + 1]
            /\ WriterStepped(w, "save", r.threw)
    /\ UNCHANGED <<auditSeq, auditHistory>>

\* createAuditLog: const logs = loadFromStorage(AUDIT_LOGS, [])
WriterLoadLogs(w) ==
    /\ writers[w].pc = "saved"
    /\ writers' = [writers EXCEPT
            ![w].pc = "logs",
            ![w].logs = loadFromStorage(localStorage, COLLECTION_KEYS.AUDIT_LOGS, <<>>)]
    /\ WriterStepped(w, "loadLogs", FALSE)
    /\ UNCHANGED <<localStorage, auditSeq, auditHistory, faults>>

\* createAuditLog: saveToStorage(AUDIT_LOGS, [newLog, ...logs].slice(0, 1000))
WriterSaveLogs(w) ==
    /\ writers[w].pc = "logs"
    /\ \E accepted \in BOOLEAN :
        LET newLog == Stamped(WriterLog(writers[w].repo, writers[w].entity, "u1"), auditSeq)
        IN  \E r \in {saveToStorage(localStorage, COLLECTION_KEYS.AUDIT_LOGS,
                                    Slice(<<newLog>> \o writers[w].logs, AuditCap), accepted)} :
            /\ (~accepted) => faults < MaxFaults
            /\ localStorage' = r.ls
            /\ faults' = IF accepted THEN faults ELSE faults + 1
            /\ auditSeq' = auditSeq + 1
            /\ auditHistory' = IF r.threw THEN auditHistory ELSE <<newLog>> \o auditHistory
            /\ writers' = [writers EXCEPT ![w].pc = IF r.threw THEN "failed" ELSE "done"]
            /\ WriterStepped(w, "saveLogs", r.threw)

GetAllStep == \E w \in Writers : WriterGetAll(w)
SaveStep == \E w \in Writers : WriterSaveStep(w)
LoadLogsStep == \E w \in Writers : WriterLoadLogs(w)
SaveLogsStep == \E w \in Writers : WriterSaveLogs(w)

NextWriters ==
    \/ GetAllStep
    \/ SaveStep
    \/ LoadLogsStep
    \/ SaveLogsStep

SpecWriters == InitWriters /\ [][NextWriters]_vars

\* the collection the two contexts write, as stored
WrittenCollection ==
    loadFromStorage(localStorage, CollectionKey(writers[1].repo), <<>>)

Holds(collection, entity) == \E i \in 1..Len(collection) : collection[i] = entity

BothCompleted == \A w \in Writers : writers[w].pc = "done"

(* C21: when two writers each run a create on the same collection and      *)
(* their read and write steps interleave, both creates can complete        *)
(* without error while the stored collection lacks one of the two created  *)
(* entities.  The last writer wins: once both have completed, the store    *)
(* holds what the last writer read with its entity added, and it holds the *)
(* other writer's entity exactly when the last writer read after the other *)
(* wrote.                                                                  *)

C21_LastWriterWins ==
    BothCompleted =>
        \A w, u \in Writers :
            (writers[w].wroteAt > writers[u].wroteAt) =>
                /\ WrittenCollection =
                        AddEntity(writers[w].repo, writers[w].snapshot, writers[w].entity)
                /\ Holds(WrittenCollection, writers[w].entity)
                /\ Holds(WrittenCollection, writers[u].entity)
                        <=> (writers[w].readAt > writers[u].wroteAt)

\* the lost update: both creates completed, one created entity is not stored
C21_Witness ==
    /\ BothCompleted
    /\ faults = 0
    /\ \E w \in Writers : ~Holds(WrittenCollection, writers[w].entity)
    /\ Len(WrittenCollection) = 1

----------------------------------------------------------------------------
(* Specification of bulk save and load of the six collections, for both    *)
(* persistence modules                                                     *)

SampleArrays(c) ==
    CASE c = "invoices" ->
            { <<>>,
              << [id |-> "i1", partnerCode |-> "P1", totalAmount |-> Num(100), status |-> "Draft"] >>,
              << [id |-> "i2", partnerCode |-> "P2", totalAmount |-> Infinity, status |-> "Draft"] >> }
      [] c = "agreements" ->
            { <<>>, << [id |-> "g1", partnerCode |-> "P1", isActive |-> TRUE] >> }
      [] c = "events" ->
            { <<>>, << [id |-> "e1", title |-> "Meetup", partnerCode |-> "P1"] >> }
      [] c = "campaigns" ->
            { <<>>, << [id |-> "c1", name |-> "Launch", status |-> "Completed"] >> }
      [] c = "admins" ->
            { <<>>, << [id |-> "a2", role |-> CommunityAdmin, assignedCodes |-> <<"P1">>] >> }
      [] c = "registry" ->
            { <<>>, << [code |-> "P1", name |-> "Community One", region |-> "EMEA"] >> }

InitStore == InitLocal

StoreSave ==
    /\ impl = "operations"
    /\ \E c \in Collections : \E data \in SampleArrays(c), a \in BOOLEAN :
            RepositorySave(c, data, a)
    /\ UNCHANGED <<opCount, faults, impl, writers, serverVars>>

StoreGetAll ==
    /\ impl = "operations"
    /\ \E c \in Collections : RepositoryGetAll(c)
    /\ UNCHANGED <<opCount, faults, impl, writers, serverVars>>

LocalStoreSave ==
    /\ impl = "LocalDB"
    /\ \E c \in Collections : \E data \in SampleArrays(c), a \in BOOLEAN :
            LocalDBSave(c, data, a)
    /\ UNCHANGED <<opCount, faults, impl, writers, serverVars>>

LocalStoreGet ==
    /\ impl = "LocalDB"
    /\ \E c \in Collections : LocalDBGet(c)
    /\ UNCHANGED <<opCount, faults, impl, writers, serverVars>>

NextStore ==
    \/ StoreSave
    \/ StoreGetAll
    \/ LocalStoreSave
    \/ LocalStoreGet

SpecStore == InitStore /\ [][NextStore]_vars

\* no non-finite number in any entity of the array
Representable(x) ==
    \A i \in 1..Len(x) : \A f \in DOMAIN x[i] :
        f \in NumberFields => x[i][f] \notin {NaN, Infinity}

(* C7, as stated: for every collection and every array x, saving x and     *)
(* then loading the collection returns a value equal to x, whatever the    *)
(* collection held before.                                                 *)

C7_AsStated ==
    (lastOp.op = "getAll" /\ lastSaved[lastOp.coll].saved) =>
        lastOp.result = lastSaved[lastOp.coll].value

(* C7, amended: ... for every array x whose numbers are all finite (JSON   *)
(* writes NaN and Infinity as null, so they load as null).                 *)

C7_RoundTrip ==
    (/\ lastOp.op = "getAll"
     /\ lastSaved[lastOp.coll].saved
     /\ Representable(lastSaved[lastOp.coll].value)) =>
        lastOp.result = lastSaved[lastOp.coll].value

C7_Witness ==
    /\ lastOp.op = "getAll"
    /\ lastOp.coll = "admins"
    /\ lastSaved["admins"].saved
    /\ lastSaved["admins"].value = <<>>
    /\ lastOp.result = <<>>

(* C13, as stated: when the backing store rejects the write of a save, the *)
(* save signals an error to its caller and the localStorage content is     *)
(* exactly what it was before the call.                                    *)

C13_AsStated ==
    [][ (lastOp'.op = "save" /\ ~lastOp'.wrote) =>
            (lastOp'.threw /\ localStorage' = localStorage) ]_vars

----------------------------------------------------------------------------
(* Specification of the repository writes over a populated store: every    *)
(* collection was saved once and one dataset version was uploaded, then    *)
(* the audited writes and the bulk saves run.                              *)

\* what the earlier bulk save of each collection stored
FrameArray(c) ==
    CASE c = "invoices"   -> << AuditInvoice >>
      [] c = "agreements" -> << [id |-> "g1", partnerCode |-> "P1", isActive |-> TRUE] >>
      [] c = "events"     -> << [id |-> "e0", title |-> "Kickoff", partnerCode |-> "P2"] >>
      [] c = "campaigns"  -> << [id |-> "c0", name |-> "Teaser", status |-> "Completed"] >>
      [] c = "admins"     -> << [id |-> "a2", role |-> CommunityAdmin, assignedCodes |-> <<"P1">>] >>
      [] c = "registry"   -> << [code |-> "P1", name |-> "Community One", region |-> "EMEA"] >>

FrameStore ==
    [k \in StorageKeys |->
        IF k = COLLECTION_KEYS.AUDIT_LOGS
        THEN JSONstringify(<< Stamped(UploadLog("v1"), 1) >>)
        ELSE IF k = COLLECTION_KEYS.VERSIONS
        THEN JSONstringify(<< [id |-> "v1", fileName |-> "data.csv", upload |-> 1] >>)
        ELSE JSONstringify(FrameArray(CHOOSE c \in Collections : CollectionKey(c) = k))]

InitFrame ==
    /\ localStorage = FrameStore
    /\ auditSeq = 2
    /\ auditHistory = << Stamped(UploadLog("v1"), 1) >>
    /\ lastOp = NoOp
    /\ lastSaved = [c \in Collections |-> [saved |-> TRUE, value |-> FrameArray(c)]]
    /\ opCount = 0
    /\ faults = 0
    /\ impl = "operations"
    /\ writers = NoWriters
    /\ ServerIdle

\* Invoices.save, Agreements.save, Events.save, Campaigns.save, Admins.save,
\* Registry.save
FrameSave ==
    /\ opCount < MaxAuditOps
    /\ \E c \in Collections : \E data \in SampleArrays(c), a \in BOOLEAN :
            /\ (~a) => faults < MaxFaults
            /\ RepositorySave(c, data, a)
            /\ faults' = IF a THEN faults ELSE faults + 1
    /\ opCount' = opCount + 1
    /\ UNCHANGED <<impl, writers, serverVars>>

NextFrame ==
    \/ FrameSave
    \/ AuditVersionsSave
    \/ AuditVersionsDelete
    \/ AuditInvoicesCreate
    \/ AuditInvoicesUpdate
    \/ AuditEventsCreate
    \/ AuditCampaignsLog

SpecFrame == InitFrame /\ [][NextFrame]_vars

\* the storage key of the collection a write is about
OwnKey(op) ==
    CASE op.op = "save" ->
            ( CASE op.coll = "invoices"   -> "hcp_invoices"
                [] op.coll = "agreements" -> "hcp_agreements"
                [] op.coll = "events"     -> "hcp_events"
                [] op.coll = "campaigns"  -> "hcp_campaigns"
                [] op.coll = "admins"     -> "hcp_admins"
                [] op.coll = "registry"   -> "hcp_registry" )
      [] op.op \in {"Invoices.create", "Invoices.update"} -> "hcp_invoices"
      [] op.op = "Events.create" -> "hcp_events"
      [] op.op = "Campaigns.logCampaign" -> "hcp_campaigns"
      [] op.op \in {"DatasetVersions.save", "DatasetVersions.delete"} -> "hcp_versions"

(* C24: every repository write changes only the storage key of its own     *)
(* collection and, when it audits, the audit-log key; the values under all *)
(* other keys are left unchanged.                                          *)

C24_OnlyOwnKeys ==
    [][ \A k \in StorageKeys :
            (localStorage'[k] # localStorage[k]) =>
                \/ k = OwnKey(lastOp')
                \/ (k = "hcp_audit_logs" /\ lastOp'.op \in AuditedOps) ]_vars

C24_Witness ==
    /\ lastOp.op = "Campaigns.logCampaign"
    /\ ~lastOp.threw
    /\ opCount = 1
    /\ localStorage["hcp_campaigns"] # FrameStore["hcp_campaigns"]
    /\ localStorage["hcp_audit_logs"] # FrameStore["hcp_audit_logs"]
    /\ \A k \in StorageKeys \ {"hcp_campaigns", "hcp_audit_logs"} :
            localStorage[k] = FrameStore[k]

----------------------------------------------------------------------------
(* Specification of the loaders over any stored content: a key may be      *)
(* missing, hold a JSON text or a text that does not parse (the empty     *)
(* text included), whoever wrote it.                                       *)

LoadKeys == {COLLECTION_KEYS.VERSIONS, COLLECTION_KEYS.INVOICES, COLLECTION_KEYS.ADMINS}

StoredItems ==
    { NoItem, CorruptItem, TextItem(<<>>),
      TextItem(<< [id |-> "x1", partnerCode |-> "P1"] >>),
      TextItem(<< [id |-> "x2", partnerCode |-> "P2"], [id |-> "x1", partnerCode |-> "P1"] >>) }

LoadFallbacks == { <<>>, MOCK_ADMIN_TEAM }

InitLoad ==
    /\ \E content \in [LoadKeys -> StoredItems] :
            localStorage = [k \in StorageKeys |->
                                IF k \in LoadKeys THEN content[k] ELSE NoItem]
    /\ auditSeq = 1
    /\ auditHistory = <<>>
    /\ lastOp = NoOp
    /\ lastSaved = [c \in Collections |-> NotSaved]
    /\ opCount = 0
    /\ faults = 0
    /\ impl \in {"operations", "LocalDB"}
    /\ writers = NoWriters
    /\ ServerIdle

Loaded(fn, key, fallback, result) ==
    /\ lastOp' = [ op |-> "load", fn |-> fn, key |-> key, fallback |-> fallback,
                   result |-> result, threw |-> FALSE ]
    /\ UNCHANGED <<localStorage, auditSeq, auditHistory, lastSaved, opCount, faults,
                   impl, writers, serverVars>>

LoadFromStorageCall ==
    /\ impl = "operations"
    /\ \E key \in LoadKeys, fallback \in LoadFallbacks :
            Loaded("loadFromStorage", key, fallback,
                   loadFromStorage(localStorage, key, fallback))

LoadItemCall ==
    /\ impl = "LocalDB"
    /\ \E key \in LoadKeys, fallback \in LoadFallbacks :
            Loaded("loadItem", key, fallback, loadItem(localStorage, key, fallback))

GetDatasetVersionsCall ==
    /\ impl = "LocalDB"
    /\ Loaded("getDatasetVersions", KEYS.VERSIONS, <<>>, getDatasetVersions(localStorage))

NextLoad ==
    \/ LoadFromStorageCall
    \/ LoadItemCall
    \/ GetDatasetVersionsCall

SpecLoad == InitLoad /\ [][NextLoad]_vars

(* C14: a load returns the deserialized stored value when the key holds a  *)
(* parseable text, and the fallback when the key is missing or its text is *)
(* corrupt; it does not throw in any of these cases.                       *)

C14_LoadOrFallback ==
    (lastOp.op = "load") =>
        LET item == localStorage[lastOp.key]
        IN  /\ ~lastOp.threw
            /\ (item.kind = "text") => lastOp.result = item.doc
            /\ (item.kind \in {"none", "corrupt"}) => lastOp.result = lastOp.fallback

C14_Witness ==
    /\ lastOp.op = "load"
    /\ lastOp.fn = "loadItem"
    /\ localStorage[lastOp.key] = CorruptItem
    /\ lastOp.fallback = MOCK_ADMIN_TEAM
    /\ lastOp.result = MOCK_ADMIN_TEAM

----------------------------------------------------------------------------
(* Specification of the API gateway *)

\* field names, as sequences of characters
Name_id == <<"i", "d">>
Name_status == <<"s", "t", "a", "t", "u", "s">>
Name_bad_col == <<"b", "a", "d", " ", "c", "o", "l">>
Name_1a == <<"1", "a">>
Name_empty == <<>>

Field(name, value) == [name |-> name, value |-> value]

GoodData ==
    { ObjectData(<< Field(Name_id, "i1") >>),
      ObjectData(<< Field(Name_id, "i2"), Field(Name_status, "Draft") >>) }

BadData ==
    { ObjectData(<< Field(Name_id, "i1"), Field(Name_bad_col, "x") >>),
      ObjectData(<< Field(Name_1a, "x") >>),
      ObjectData(<< Field(Name_empty, "x") >>),
      ObjectData(<<>>),
      ArrayData(<< "row" >>),
      ArrayData(<<>>),
      NoData,
      NullData }

TypeInputs ==
    { Unsupplied, Supplied(""), Supplied("invoices"), Supplied("events"),
      Supplied("bogus"), Supplied("constructor") }

\* every data with a known type; the good and one bad data with every type
BodyInputs ==
    {NullBody, BadJson} \cup
    { [kind |-> "text", parses |-> TRUE, json |-> [type |-> Supplied("invoices"), data |-> data]] :
        data \in GoodData \cup BadData }
    \cup
    { [kind |-> "text", parses |-> TRUE, json |-> [type |-> ty, data |-> data]] :
        ty \in TypeInputs,
        data \in GoodData \cup {ObjectData(<< Field(Name_id, "i1"), Field(Name_bad_col, "x") >>)} }

TokenInputs ==
    { EmptyToken, Garbage, Jwt("k1", 1), JwtForever("k1"), JwtForever("k2") }

HeaderValues ==
    { AbsentHeader, EmptyHeader, Header("Basic ", Garbage), Header("bearer ", JwtForever("k1")) }
    \cup { Header("Bearer ", tok) : tok \in TokenInputs }

\* the platform passes the header under one of the two spellings
HeaderInputs ==
    { [authorization |-> h, Authorization |-> AbsentHeader] : h \in HeaderValues }
    \cup { [authorization |-> AbsentHeader, Authorization |-> Header("Bearer ", JwtForever("k1"))] }

GoodHeaders ==
    { [authorization |-> Header("Bearer ", JwtForever("k1")), Authorization |-> AbsentHeader] }

Event(method, headers, queryType, body) ==
    [httpMethod |-> method, headers |-> headers, queryType |-> queryType, body |-> body]

\* every header with one plain read; one good header with every read and write
GatewayEvents ==
    { Event("GET", h, Supplied("invoices"), NullBody) : h \in HeaderInputs }
    \cup { Event("GET", h, ty, NullBody) : h \in GoodHeaders, ty \in TypeInputs }
    \cup { Event("POST", h, Unsupplied, b) : h \in GoodHeaders, b \in BodyInputs }
    \cup { Event(m, h, Supplied("invoices"), NullBody) : m \in {"PUT", "PATCH"}, h \in GoodHeaders }
    \cup { Event(m, h, Supplied("invoices"),
                  [kind |-> "text", parses |-> TRUE,
                   json |-> [type |-> Supplied("invoices"), data |-> data]]) :
                m \in {"PUT", "PATCH"}, h \in GoodHeaders, data \in GoodData }

RECURSIVE SumLen(_, _)
SumLen(d, ts) ==
    IF ts = {} THEN 0
    ELSE LET t == CHOOSE x \in ts : TRUE
         IN  Len(d[t]) + SumLen(d, ts \ {t})

InitGateway ==
    /\ LocalIdle
    /\ jwtSecret \in {Unset, "k1"}
    /\ now = 0
    /\ db = EmptyDb
    /\ lastEvent = NoEvent
    /\ lastResponse = NoResponse
    /\ lastRun = NotRun
    /\ created = {}

GatewayRequest ==
    /\ \E event \in GatewayEvents, dbOk \in BOOLEAN :
        \E o \in {handler(event, db, jwtSecret, now, dbOk)} :
            /\ SumLen(o.db, Tables) <= MaxRows
            /\ Ran("api", event, o, dbOk)
            /\ created' =
                    IF event.httpMethod = "POST" /\ o.response.statusCode = 200
                    THEN created \cup {[type |-> event.body.json.type.value,
                                         row |-> o.response.body.row]}
                    ELSE created
    /\ UNCHANGED <<jwtSecret, now, localVars>>

NextGateway ==
    \/ GatewayRequest
    \/ Tick

SpecGateway == InitGateway /\ [][NextGateway]_vars

\* the header the request carries, under either spelling
CarriedHeader(event) ==
    IF event.headers.authorization.present
    THEN event.headers.authorization
    ELSE event.headers.Authorization

IsBearer(h) == h.present /\ h.prefix = "Bearer "

Malformed(tok) == tok.kind # "jwt"
WrongSecret(tok) == tok.kind = "jwt" /\ tok.key # jwtSecret
Expired(tok, t) == tok.kind = "jwt" /\ tok.hasExp /\ t >= tok.exp

(* C1: with the signing secret configured, a gateway request gets past     *)
(* authentication iff its authorization header carries a bearer token that *)
(* is well formed, signed with that secret and not expired; a missing or   *)
(* non-Bearer header is answered 401 'Unauthorized'; a malformed, wrongly  *)
(* signed or expired token is answered 401 'Invalid token'.                *)

C1_GatewayAuthentication ==
    (lastRun.handler = "api") =>
        LET h == CarriedHeader(lastEvent)
        IN  /\ ~IsBearer(h) =>
                    /\ ~lastRun.passedAuth
                    /\ lastResponse = Reply(401, ErrorBody("Unauthorized"))
            /\ (IsBearer(h) /\ ~SecretMissing(jwtSecret)) =>
                    LET bad == \/ Malformed(h.token)
                               \/ WrongSecret(h.token)
                               \/ Expired(h.token, lastRun.at)
                    IN  /\ lastRun.passedAuth <=> ~bad
                        /\ bad => lastResponse = Reply(401, ErrorBody("Invalid token"))
                        /\ ~bad => lastResponse.statusCode # 401

C1_Witness ==
    /\ lastRun.handler = "api"
    /\ lastRun.passedAuth
    /\ CarriedHeader(lastEvent).token.hasExp
    /\ lastResponse.statusCode = 200

\* some field name of the data object has a character outside [a-zA-Z0-9_]
HasForeignCharacter(data) ==
    /\ data.kind = "object"
    /\ \E i \in 1..Len(data.fields) : \E k \in 1..Len(data.fields[i].name) :
            data.fields[i].name[k] \notin Letters \cup Range(Digits) \cup {"_"}

(* C6: an authenticated POST whose data object has a field name with a     *)
(* character outside [a-zA-Z0-9_] is answered 400, and no storage query is *)
(* executed for it.                                                        *)

C6_InvalidFieldNameRejected ==
    (/\ lastRun.handler = "api"
     /\ lastRun.passedAuth
     /\ lastEvent.httpMethod = "POST"
     /\ lastEvent.body.kind = "text"
     /\ lastEvent.body.parses
     /\ HasForeignCharacter(lastEvent.body.json.data)) =>
        /\ lastResponse.statusCode = 400
        /\ lastRun.queries = 0

C6_Witness ==
    /\ lastRun.handler = "api"
    /\ lastRun.passedAuth
    /\ lastEvent.httpMethod = "POST"
    /\ lastEvent.body.kind = "text"
    /\ lastEvent.body.parses
    /\ HasForeignCharacter(lastEvent.body.json.data)
    /\ lastEvent.body.json.type = Supplied("invoices")
    /\ lastResponse = Reply(400, ErrorBody("Invalid column name in data"))
    /\ SumLen(db, Tables) > 0

\* the value a row holds in a column, "" when it has no such column
ValueOf(row, name) ==
    IF \E i \in 1..Len(row) : row[i].name = name
    THEN row[CHOOSE i \in 1..Len(row) : row[i].name = name].value
    ELSE ""

(* C9: a successful authenticated POST {type, data} answers with the       *)
(* created row, whose columns are the fields of data (the id among them),  *)
(* and every later authenticated GET of that type that returns the         *)
(* collection returns one that includes the row.                           *)

C9_PostThenGet ==
    /\ (/\ lastRun.handler = "api"
        /\ lastEvent.httpMethod = "POST"
        /\ lastResponse.statusCode = 200) =>
            LET data == lastEvent.body.json.data
                row == lastResponse.body.row
            IN  /\ row = data.fields
                /\ ValueOf(row, Name_id) = ValueOf(data.fields, Name_id)
                /\ \E i \in 1..Len(db[lastEvent.body.json.type.value]) :
                        db[lastEvent.body.json.type.value][i] = row
    /\ (/\ lastRun.handler = "api"
        /\ lastEvent.httpMethod = "GET"
        /\ lastResponse.statusCode = 200) =>
            \A c \in created :
                (c.type = lastEvent.queryType.value) =>
                    \E i \in 1..Len(lastResponse.body.rows) :
                        lastResponse.body.rows[i] = c.row

C9_Witness ==
    /\ lastRun.handler = "api"
    /\ lastEvent.httpMethod = "GET"
    /\ lastResponse.statusCode = 200
    /\ lastRun.at > 0
    /\ \E c \in created : c.type = lastEvent.queryType.value
    /\ \E c \in created : c.type # lastEvent.queryType.value

(* C10: a gateway request answered 401 or 400 has executed no storage      *)
(* query.                                                                  *)

C10_NoQueryOnRejection ==
    (lastRun.handler = "api" /\ lastResponse.statusCode \in {400, 401}) =>
        lastRun.queries = 0

C10_Witness ==
    /\ lastRun.handler = "api"
    /\ lastRun.passedAuth
    /\ lastEvent.httpMethod = "GET"
    /\ lastResponse = Reply(400, ErrorBody("Invalid type parameter"))
    /\ lastRun.queries = 0
    /\ SumLen(db, Tables) > 0

\* the entity type an authenticated GET or POST declares, when it declares one
DeclaresType(event) ==
    \/ event.httpMethod = "GET" /\ event.queryType.supplied
    \/ /\ event.httpMethod = "POST"
       /\ event.body.kind = "text"
       /\ event.body.parses
       /\ event.body.json.type.supplied

DeclaredType(event) ==
    IF event.httpMethod = "GET" THEN event.queryType.value
    ELSE event.body.json.type.value

SevenKnownTypes ==
    {"developers", "invoices", "events", "admins", "agreements", "campaigns", "registry"}

(* C11, as stated: an authenticated GET or POST whose declared entity type *)
(* is a string other than the seven known types is answered 400, names     *)
(* inherited from Object.prototype such as 'constructor' included.         *)

C11_AsStated ==
    (/\ lastRun.handler = "api"
     /\ lastRun.passedAuth
     /\ DeclaresType(lastEvent)
     /\ DeclaredType(lastEvent) \notin SevenKnownTypes) =>
        lastResponse.statusCode = 400

\* the last request passed authentication, named a known entity type and,
\* for a write, carried that type and a row with valid column names; the
\* database did not fail
DispatchedRequest(methods) ==
    /\ lastRun.handler = "api"
    /\ lastRun.passedAuth
    /\ ~lastRun.dbFailed
    /\ lastEvent.httpMethod \in methods
    /\ IF lastEvent.httpMethod = "GET"
       THEN /\ Truthy(lastEvent.queryType)
            /\ lastEvent.queryType.value \in SevenKnownTypes
       ELSE /\ lastEvent.body.kind = "text"
            /\ lastEvent.body.parses
            /\ Truthy(lastEvent.body.json.type)
            /\ lastEvent.body.json.type.value \in SevenKnownTypes
            /\ lastEvent.body.json.data \in GoodData

\* GET answered with the whole collection, a write answered with the
\* stored row after one query
DispatchedByMethod ==
    /\ lastResponse.statusCode = 200
    /\ lastRun.queries = 1
    /\ IF lastEvent.httpMethod = "GET"
       THEN lastResponse.body.rows = db[lastEvent.queryType.value]
       ELSE \E i \in 1..Len(db[lastEvent.body.json.type.value]) :
                db[lastEvent.body.json.type.value][i] = lastResponse.body.row

(* C20, as stated: an authenticated gateway request with a known entity    *)
(* type is dispatched by method: GET reads the whole collection, and each  *)
(* of POST, PUT and PATCH writes the request body's data.                  *)

C20_AsStated ==
    DispatchedRequest({"GET", "POST", "PUT", "PATCH"}) => DispatchedByMethod

\* the part that holds: GET reads the whole collection and POST writes
C20_GetAndPost ==
    DispatchedRequest({"GET", "POST"}) => DispatchedByMethod

----------------------------------------------------------------------------
(* Specification of the login function, in its three variants *)

AdminRow == [id |-> "a1", email |-> "a@x", password |-> bcryptHash("pw1"), role |-> SuperAdmin]

CredentialInputs == { Unsupplied, Supplied(""), Supplied("a@x"), Supplied("b@x") }
PasswordInputs == { Unsupplied, Supplied("pw1"), Supplied("pw2") }

LoginEvents ==
    { Event("GET", [authorization |-> AbsentHeader, Authorization |-> AbsentHeader],
            Unsupplied, NullBody) }
    \cup
    { Event("POST", [authorization |-> AbsentHeader, Authorization |-> AbsentHeader],
            Unsupplied, b) :
        b \in {NullBody, BadJson} \cup
              { [kind |-> "text", parses |-> TRUE, json |-> [email |-> e, password |-> p]] :
                    e \in CredentialInputs, p \in PasswordInputs } }

InitAuth ==
    /\ LocalIdle
    /\ jwtSecret \in {Unset, "k1"}
    /\ now = 0
    /\ \E admins \in {<<>>, << AdminRow >>} : db = [EmptyDb EXCEPT !["admins"] = admins]
    /\ lastEvent = NoEvent
    /\ lastResponse = NoResponse
    /\ lastRun = NotRun
    /\ created = {}

LoginA ==
    /\ \E event \in LoginEvents, dbOk \in BOOLEAN :
        \E o \in {authHandlerA(event, db, jwtSecret, now, dbOk)} :
            Ran("authA", event, o, dbOk)
    /\ UNCHANGED <<jwtSecret, now, created, localVars>>

LoginB ==
    /\ \E event \in LoginEvents, dbOk \in BOOLEAN :
        \E o \in {authHandlerB(event, db, jwtSecret, now, dbOk)} :
            Ran("authB", event, o, dbOk)
    /\ UNCHANGED <<jwtSecret, now, created, localVars>>

LoginC ==
    /\ \E event \in LoginEvents, dbOk \in BOOLEAN :
        \E o \in {authHandlerC(event, db, jwtSecret, now, dbOk)} :
            Ran("authC", event, o, dbOk)
    /\ UNCHANGED <<jwtSecret, now, created, localVars>>

NextAuth ==
    \/ LoginA
    \/ LoginB
    \/ LoginC
    \/ Tick

SpecAuth == InitAuth /\ [][NextAuth]_vars

\* the last request was a login with an email and a password, and the
\* admin lookup was answered; the second variant runs with its secret set
LoginLookedUp ==
    /\ lastRun.handler \in {"authA", "authB", "authC"}
    /\ lastEvent.httpMethod = "POST"
    /\ lastEvent.body.kind = "text"
    /\ lastEvent.body.parses
    /\ Truthy(lastEvent.body.json.email)
    /\ Truthy(lastEvent.body.json.password)
    /\ ~lastRun.dbFailed
    /\ (lastRun.handler = "authB") => ~SecretMissing(jwtSecret)

NoSuchAdmin(email) == \A i \in 1..Len(db["admins"]) : db["admins"][i].email # email

PasswordMismatch(email, password) ==
    \E i \in 1..Len(db["admins"]) :
        /\ db["admins"][i].email = email
        /\ db["admins"][i].password # bcryptHash(password)

(* C8: a login whose email matches no stored admin, or whose password does *)
(* not match the stored hash, is answered 401 'Invalid credentials' with   *)
(* no token, the same response in both cases.                              *)

C8_InvalidCredentials ==
    (/\ LoginLookedUp
     /\ \/ NoSuchAdmin(lastEvent.body.json.email.value)
        \/ PasswordMismatch(lastEvent.body.json.email.value,
                            lastEvent.body.json.password.value)) =>
        /\ lastResponse = Reply(401, ErrorBody("Invalid credentials"))
        /\ "token" \notin DOMAIN lastResponse.body
        /\ ~lastRun.passedAuth

C8_Witness ==
    /\ LoginLookedUp
    /\ lastRun.handler = "authC"
    /\ PasswordMismatch(lastEvent.body.json.email.value, lastEvent.body.json.password.value)
    /\ lastResponse = InvalidCredentials

\* the last request was a login carrying an email and a password while
\* the signing secret is absent
LoginWithoutSecret ==
    /\ SecretMissing(jwtSecret)
    /\ lastRun.handler \in {"authA", "authB", "authC"}
    /\ lastEvent.httpMethod = "POST"
    /\ lastEvent.body.kind = "text"
    /\ lastEvent.body.parses
    /\ Truthy(lastEvent.body.json.email)
    /\ Truthy(lastEvent.body.json.password)

(* C19, as stated: when the token-signing secret is absent, every login    *)
(* request fails with a server-misconfiguration error (500) whatever the   *)
(* supplied credentials are, and no token is issued.                       *)

C19_AsStated ==
    LoginWithoutSecret =>
        /\ lastResponse.statusCode = 500
        /\ "token" \notin DOMAIN lastResponse.body

\* the part that holds: no variant issues a token without the secret, and
\* the variant that checks the secret first answers every login with 500
C19_NoTokenWithoutSecret ==
    LoginWithoutSecret =>
        /\ "token" \notin DOMAIN lastResponse.body
        /\ lastResponse.statusCode # 200
        /\ (lastRun.handler = "authB") => lastResponse = InternalServerError

----------------------------------------------------------------------------
(* The API-backed repository (ApiService), composed with the gateway: a    *)
(* fetch either fails on the network or is answered by the gateway.        *)

\* localStorage.getItem('token'): null, or the stored text
NoStoredToken == [present |-> FALSE]
StoredToken(tok) == [present |-> TRUE, token |-> tok]

\* `if (token)`: a stored text that is not empty
TokenTruthy(item) == item.present /\ item.token # EmptyToken

\* the headers request() builds
RequestHeaders(item) ==
    [ authorization |-> AbsentHeader,
      Authorization |-> IF TokenTruthy(item) THEN Header("Bearer ", item.token)
                        ELSE AbsentHeader ]

\* request() called without a body
NoRequestBody == [kind |-> "undefined"]

\* JSON.stringify(body) when a body is given and the method is POST, PUT or PATCH
RequestBody(method, body) ==
    IF body.kind # "undefined" /\ method \in {"POST", "PUT", "PATCH"}
    THEN [kind |-> "text", parses |-> TRUE, json |-> body.json]
    ELSE NullBody

\* the empty array a read falls back to; a response body that is an array
\* is [rows |-> ...]
EmptyArray == [rows |-> <<>>]

\* request(method, type, body): throws when fetch rejects and, after the
\* redirect, on a 401; every other response is returned as parsed JSON
request(method, type, body, item, net, d, secret, t, dbOk) ==
    LET event == Event(method, RequestHeaders(item), Supplied(type),
                       RequestBody(method, body))
        o == handler(event, d, secret, t, dbOk)
    IN  IF ~net
        THEN [reached |-> FALSE, threw |-> TRUE, redirected |-> FALSE]
        ELSE IF o.response.statusCode = 401
        THEN [reached |-> TRUE, event |-> event, outcome |-> o,
              threw |-> TRUE, redirected |-> TRUE]
        ELSE [reached |-> TRUE, event |-> event, outcome |-> o,
              threw |-> FALSE, redirected |-> FALSE, value |-> o.response.body]

\* getDevelopers ... getMasterRegistry: the request's value, [] when it threw
ApiServiceGet(r) == IF r.threw THEN EmptyArray ELSE r.value

\* the type each pair of methods passes to request()
ApiTypes ==
    {"developers", "admins", "invoices", "agreements", "events", "campaigns", "registry"}

----------------------------------------------------------------------------
(* Specification of the API-backed repository *)

StoredTokens ==
    { NoStoredToken, StoredToken(EmptyToken),
      StoredToken(Jwt("k1", 0)), StoredToken(JwtForever("k1")) }

\* what goes wrong on the way: nothing, the network, or the database
Failures == { [net |-> TRUE, dbOk |-> TRUE], [net |-> FALSE, dbOk |-> TRUE],
              [net |-> TRUE, dbOk |-> FALSE] }

StoredRow == << [name |-> Name_id, value |-> "i1"] >>

SavedArrays == { ArrayData(<<>>), ArrayData(<< "row" >>), ArrayData(<< "row", "row" >>) }

\* the saves run without a stored token or with a lasting one
SaveTokens == { NoStoredToken, StoredToken(JwtForever("k1")) }

InitApi ==
    /\ LocalIdle
    /\ jwtSecret \in {Unset, "k1"}
    /\ now = 0
    /\ \E rows \in {<<>>, << StoredRow >>} : db = [EmptyDb EXCEPT !["invoices"] = rows]
    /\ lastEvent = NoEvent
    /\ lastResponse = NoResponse
    /\ lastRun = NotRun
    /\ created = {}

\* what the state keeps of a call of the repository
Requested(op, type, r, result, dbOk) ==
    /\ lastOp' = [ op |-> op, type |-> type, reached |-> r.reached,
                   status |-> IF r.reached THEN r.outcome.response.statusCode ELSE 0,
                   result |-> result, threw |-> FALSE, redirected |-> r.redirected ]
    /\ IF r.reached
       THEN /\ Ran("api", r.event, r.outcome, dbOk)
            /\ created' =
                    IF r.event.httpMethod = "POST" /\ r.outcome.response.statusCode = 200
                    THEN created \cup {[type |-> type, row |-> r.outcome.response.body.row]}
                    ELSE created
       ELSE UNCHANGED <<db, lastEvent, lastResponse, lastRun, created>>
    /\ UNCHANGED <<jwtSecret, now, localStorage, auditSeq, auditHistory, lastSaved,
                   opCount, faults, impl, writers>>

ApiGet ==
    \E type \in ApiTypes, item \in StoredTokens, f \in Failures :
        \E r \in {request("GET", type, NoRequestBody, item, f.net, db, jwtSecret, now, f.dbOk)} :
            Requested("ApiService.get", type, r, ApiServiceGet(r), f.dbOk)

ApiSave ==
    \E type \in ApiTypes, data \in SavedArrays, item \in SaveTokens, f \in Failures :
        \E r \in {request("POST", type,
                          [kind |-> "object", json |-> [type |-> Supplied(type), data |-> data]],
                          item, f.net, db, jwtSecret, now, f.dbOk)} :
            Requested("ApiService.save", type, r, NoRequestBody, f.dbOk)

NextApi ==
    \/ ApiGet
    \/ ApiSave

SpecApi == InitApi /\ [][NextApi]_vars

\* the gateway request of the last read failed
ReadFailed ==
    /\ lastOp.op = "ApiService.get"
    /\ \/ ~lastOp.reached
       \/ lastOp.status >= 400

(* C15: every read method of the API-backed repository returns an empty    *)
(* array and does not throw whenever the gateway request fails, by a 401,  *)
(* by another error status such as 400 or 500, or by a network failure.    *)

C15_AsStated ==
    ReadFailed => (~lastOp.threw /\ lastOp.result = EmptyArray)

\* the part that holds: a network failure and a 401 give the empty array
C15_ThrownRequests ==
    (ReadFailed /\ (~lastOp.reached \/ lastOp.status = 401)) =>
        (~lastOp.threw /\ lastOp.result = EmptyArray)

\* the last call was a bulk save of a non-empty array whose request reached
\* the gateway and passed its authentication
SavedNonEmptyArray ==
    /\ lastOp.op = "ApiService.save"
    /\ lastOp.reached
    /\ lastRun.passedAuth
    /\ lastEvent.body.json.data.kind = "array"
    /\ Len(lastEvent.body.json.data.items) > 0

(* C22: every authenticated bulk save of the API-backed repository with a  *)
(* non-empty array is rejected by the gateway with 400 'Invalid column     *)
(* name in data', the array's index keys not being valid field names; no   *)
(* INSERT is executed, and the save resolves to its caller without error.  *)

====
